---- MODULE Spec2Model ----
(***************************************************************************)
(* A model of jneander/utils-random: the unbiased bounded-range sampler,   *)
(* the three ranged wrappers (fract32 / int32 / uint32) and the seeded     *)
(* pseudorandom number generators built on them.                           *)
(*                                                                         *)
(* JavaScript numbers are IEEE doubles.  Every number the modelled code    *)
(* handles is a multiple of 2^-FractSubBits of magnitude below 2^53, and   *)
(* TLC's integers are 32 bits wide, so a number n is kept as the triple    *)
(* <<hi, lo, frac>> with n = hi * 2^16 + lo + frac / 2^FractSubBits,       *)
(* 0 <= lo < 2^16 and 0 <= frac < 2^FractSubBits.  The 32-bit wrap-around  *)
(* of the bitwise operators (ToInt32 / ToUint32) is explicit.              *)
(***************************************************************************)
EXTENDS Integers, Sequences, FiniteSets, TLC

\* ------------------------------------------------------------------------
\* Numbers
\* ------------------------------------------------------------------------

\* Number of binary digits kept after the binary point.
FractSubBits == 2

SubUnit == 2^FractSubBits

Two16 == 2^16

Two15 == 2^15

Num(h, l, f) ==
  <<h + ((l + (f \div SubUnit)) \div Two16), (l + (f \div SubUnit)) % Two16, f % SubUnit>>

Hi(a) == a[1]

Lo(a) == a[2]

Frac(a) == a[3]

\* A small integer literal (|i| < 2^31) as a number.
Lit(i) == Num(0, i, 0)

Zero == <<0, 0, 0>>

One == <<0, 1, 0>>

Add(a, b) == Num(Hi(a) + Hi(b), Lo(a) + Lo(b), Frac(a) + Frac(b))

Sub(a, b) == Num(Hi(a) - Hi(b), Lo(a) - Lo(b), Frac(a) - Frac(b))

Lt(a, b) ==
  \/ Hi(a) < Hi(b)
  \/ (Hi(a) = Hi(b) /\ Lo(a) < Lo(b))
  \/ (Hi(a) = Hi(b) /\ Lo(a) = Lo(b) /\ Frac(a) < Frac(b))

Le(a, b) == Lt(a, b) \/ a = b

Gt(a, b) == Lt(b, a)

Ge(a, b) == Le(b, a)

IsInteger(a) == Frac(a) = 0

\* Math.floor
Floor(a) == <<Hi(a), Lo(a), 0>>

\* Truncation toward zero (the first step of ToInt32 / ToUint32).
Trunc(a) == IF Hi(a) < 0 /\ Frac(a) > 0 THEN Add(Floor(a), One) ELSE Floor(a)

\* `undefined` / `null`: an omitted argument, an unset local.
Undefined == <<>>

IsNull(a) == a = Undefined

\* ------------------------------------------------------------------------
\* JavaScript's 32-bit integer operators
\* ------------------------------------------------------------------------

\* The operators below are functions rather than operators so that TLC
\* evaluates their arguments before it applies them.
Nums == Seq(Int)

\* ToUint32: truncate, then reduce modulo 2^32.
ToUint32[a \in Nums] == <<Hi(Trunc(a)) % Two16, Lo(Trunc(a)), 0>>

\* The int32 with the bits of the uint32 u.
Signed[u \in Nums] == <<IF Hi(u) >= Two15 THEN Hi(u) - Two16 ELSE Hi(u), Lo(u), 0>>

\* ToInt32: truncate, then reduce modulo 2^32 into [-2^31, 2^31).
ToInt32[a \in Nums] == Signed[ToUint32[a]]

\* x AND y and x XOR y for x, y >= 0, bit by bit.
AndBits[x \in Nat, y \in Nat] ==
  IF x = 0 \/ y = 0 THEN 0
  ELSE ((x % 2) * (y % 2)) + (2 * AndBits[x \div 2, y \div 2])

XorBits[x \in Nat, y \in Nat] ==
  IF x = 0 THEN y
  ELSE IF y = 0 THEN x
  ELSE (((x % 2) + (y % 2)) % 2) + (2 * XorBits[x \div 2, y \div 2])

\* The same for four bits at a time, as tables.
AndNib == [a \in 0..15 |-> [b \in 0..15 |-> AndBits[a, b]]]

XorNib == [a \in 0..15 |-> [b \in 0..15 |-> XorBits[a, b]]]

\* x AND y, x XOR y and x OR y for 16-bit x and y.
And16[x \in Nat, y \in Nat] ==
  IF x = 0 \/ y = 0 THEN 0
  ELSE AndNib[x % 16][y % 16] + (16 * And16[x \div 16, y \div 16])

Xor16[x \in Nat, y \in Nat] ==
  IF x = 0 THEN y
  ELSE IF y = 0 THEN x
  ELSE XorNib[x % 16][y % 16] + (16 * Xor16[x \div 16, y \div 16])

Or16[x \in Nat, y \in Nat] == (x + y) - And16[x, y]

\* a & b, a | b, a ^ b: both operands through ToInt32, the result an int32.
JsAnd[a \in Nums, b \in Nums] ==
  Signed[<<And16[Hi(ToUint32[a]), Hi(ToUint32[b])],
           And16[Lo(ToUint32[a]), Lo(ToUint32[b])], 0>>]

JsOr[a \in Nums, b \in Nums] ==
  Signed[<<Or16[Hi(ToUint32[a]), Hi(ToUint32[b])],
           Or16[Lo(ToUint32[a]), Lo(ToUint32[b])], 0>>]

JsXor[a \in Nums, b \in Nums] ==
  Signed[<<Xor16[Hi(ToUint32[a]), Hi(ToUint32[b])],
           Xor16[Lo(ToUint32[a]), Lo(ToUint32[b])], 0>>]

\* u << k for a uint32 u and 0 <= k <= 31: the low 32 bits of u * 2^k.
ShiftLeft[u \in Nums, k \in Nat] ==
  IF k = 0 THEN u
  ELSE IF k < 16
    THEN <<((Hi(u) % (2^(16 - k))) * (2^k)) + (Lo(u) \div (2^(16 - k))),
           (Lo(u) % (2^(16 - k))) * (2^k), 0>>
    ELSE <<(Lo(u) % (2^(32 - k))) * (2^(k - 16)), 0, 0>>

\* u >>> k for a uint32 u and 0 <= k <= 31
ShiftRight[u \in Nums, k \in Nat] ==
  IF k = 0 THEN u
  ELSE IF k < 16
    THEN <<Hi(u) \div (2^k), ((Hi(u) % (2^k)) * (2^(16 - k))) + (Lo(u) \div (2^k)), 0>>
    ELSE <<0, Hi(u) \div (2^(k - 16)), 0>>

\* a << k: the low 32 bits of ToInt32[a] * 2^k, as an int32.
JsShl[a \in Nums, k \in Nat] == Signed[ShiftLeft[ToUint32[a], k]]

\* a >>> k: ToUint32[a] shifted right, zero-filled, a uint32.
JsShrU[a \in Nums, k \in Nat] == ShiftRight[ToUint32[a], k]

\* ------------------------------------------------------------------------
\* shared: constants and representation converters
\* ------------------------------------------------------------------------

\* A 32-bit decimal fraction is kept as the number it is 2^-32 of:
\* Fract(n) is n / 2^32, so Fract(<<2^16, 0, 0>>) is 1.
Fract(n) == [over2p32 |-> n]

Times2p32(fract) == fract.over2p32

IsFract(v) == DOMAIN v = {"over2p32"}

FractLt(a, b) == Lt(Times2p32(a), Times2p32(b))

FractLe(a, b) == Le(Times2p32(a), Times2p32(b))

FractAdd(a, b) == Fract(Add(Times2p32(a), Times2p32(b)))

ONE_BIT_AS_FRACT32 == Fract(One)

MIN_SAFE_FRACT32_INCLUSIVE == Fract(Zero)

MAX_SAFE_FRACT32_EXCLUSIVE == Fract(<<Two16, 0, 0>>)

MIN_SAFE_INT32_INCLUSIVE == <<-Two15, 0, 0>>

MAX_SAFE_INT32_EXCLUSIVE == <<Two15, 0, 0>>

MIN_SAFE_UINT32_INCLUSIVE == Zero

MAX_SAFE_UINT32_EXCLUSIVE == <<Two16, 0, 0>>

MAX_SAFE_UINT32_INCLUSIVE == Sub(MAX_SAFE_UINT32_EXCLUSIVE, One)

MAX_SAFE_INT32_INCLUSIVE == Sub(MAX_SAFE_INT32_EXCLUSIVE, One)

MAX_SAFE_FRACT32_INCLUSIVE ==
  Fract(Sub(Times2p32(MAX_SAFE_FRACT32_EXCLUSIVE), Times2p32(ONE_BIT_AS_FRACT32)))

bitwiseFract32ToInt32(fract32) == JsOr[Times2p32(fract32), Zero]

bitwiseFract32ToUint32(fract32) == JsShrU[Times2p32(fract32), 0]

bitwiseInt32ToFract32(int32) == Fract(JsShrU[int32, 0])

bitwiseInt32ToUint32(int32) == JsShrU[int32, 0]

bitwiseUint32ToFract32(uint32) == Fract(uint32)

\* A variant of bitwiseUint32ToInt32 with >>> 0 for | 0.
bitwiseUint32ToInt32_unsigned(uint32) == JsShrU[uint32, 0]

bitwiseUint32ToInt32(uint32) == JsOr[uint32, Zero]

\* ------------------------------------------------------------------------
\* shared/assertions: the outcome is "ok" or the name of the error thrown
\* ------------------------------------------------------------------------

assertSafeRangeFract32(minInclusive, maxExclusive) ==
  IF FractLt(minInclusive, MIN_SAFE_FRACT32_INCLUSIVE) THEN "Error"
  ELSE IF FractLt(MAX_SAFE_FRACT32_EXCLUSIVE, maxExclusive) THEN "Error"
  ELSE IF FractLe(maxExclusive, minInclusive) THEN "Error"
  ELSE "ok"

\* A variant of assertSafeRangeInt32 that accepts maxExclusive = minInclusive.
assertSafeRangeInt32_lt(minInclusive, maxExclusive) ==
  IF Lt(minInclusive, MIN_SAFE_INT32_INCLUSIVE) THEN "Error"
  ELSE IF Gt(maxExclusive, MAX_SAFE_INT32_EXCLUSIVE) THEN "Error"
  ELSE IF Lt(maxExclusive, minInclusive) THEN "Error"
  ELSE "ok"

assertSafeRangeInt32(minInclusive, maxExclusive) ==
  IF Lt(minInclusive, MIN_SAFE_INT32_INCLUSIVE) THEN "Error"
  ELSE IF Gt(maxExclusive, MAX_SAFE_INT32_EXCLUSIVE) THEN "Error"
  ELSE IF Le(maxExclusive, minInclusive) THEN "Error"
  ELSE "ok"

assertSafeRangeUint32(minInclusive, maxExclusive) ==
  IF Lt(minInclusive, MIN_SAFE_UINT32_INCLUSIVE) THEN "Error"
  ELSE IF Gt(maxExclusive, MAX_SAFE_UINT32_EXCLUSIVE) THEN "Error"
  ELSE IF Le(maxExclusive, minInclusive) THEN "Error"
  ELSE "ok"

\* ------------------------------------------------------------------------
\* numbers/unbiased-random: the sampler
\* ------------------------------------------------------------------------

\* let mask = 0; let temp = range - 1; while (temp > 0) {...}
MaskLoop[m \in Nums, temp \in Nums] ==
  IF Gt(temp, Zero)
  THEN MaskLoop[JsOr[JsShl[m, 1], One], JsShrU[temp, 1]]
  ELSE m

\* A variant of MaskFor without the final >>> 0.
MaskFor_signed(r) == MaskLoop[Zero, Sub(r, One)]

\* The mask unbiasedRandomUint32FromRange builds for `range`.
MaskFor(r) == JsShrU[MaskLoop[Zero, Sub(r, One)], 0]

\* A variant of UnitRange that takes range 0 for the unit range.
UnitRange_zero(r) == r = Zero

\* if (range === 1) return 0
UnitRange(r) == r = One

\* A variant of MaskedValue that leaves the mask out.
MaskedValue_unmasked(value, mask) == JsShrU[value, 0]

\* randomValue = (value & mask) >>> 0
MaskedValue(value, mask) == JsShrU[JsAnd[value, mask], 0]

\* A variant of Rejected that accepts randomValue = range.
Rejected_gt(randomValue, range) == Gt(randomValue, range)

\* The do-while condition: the masked value is discarded and another drawn.
Rejected(randomValue, range) == Ge(randomValue, range)

\* ------------------------------------------------------------------------
\* numbers/unbiased-random: the three ranged wrappers
\*
\* Each wrapper is split at its call of the sampler: <wrapper>(min, max) is
\* the part before it (the fast path, the defaults, the assertion, the width),
\* <wrapper>Source(v) is the function it hands to the sampler, applied to the
\* value v its own source returned, and <wrapper>Return(min, value) is the
\* part after it.
\* ------------------------------------------------------------------------

Plan(path, error, min, range) ==
  [path |-> path, error |-> error, min |-> min, range |-> range]

rangeShift == <<Two15, 0, 0>>

\* A variant of unbiasedRandomFract32 without the special case of maxExclusive = 1.
unbiasedRandomFract32_wrapmax(minInclusive, maxExclusive) ==
  IF IsNull(minInclusive) /\ IsNull(maxExclusive)
  THEN Plan("fast", "none", Undefined, Undefined)
  ELSE LET min == IF IsNull(minInclusive) THEN MIN_SAFE_FRACT32_INCLUSIVE ELSE minInclusive
           max == IF IsNull(maxExclusive) THEN MAX_SAFE_FRACT32_EXCLUSIVE ELSE maxExclusive
           minUint32 == bitwiseFract32ToUint32(min)
           maxUint32 == bitwiseFract32ToUint32(max)
       IN  IF assertSafeRangeFract32(min, max) # "ok"
           THEN Plan("throw", assertSafeRangeFract32(min, max), Undefined, Undefined)
           ELSE Plan("sample", "none", min, Sub(maxUint32, minUint32))

unbiasedRandomFract32(minInclusive, maxExclusive) ==
  IF IsNull(minInclusive) /\ IsNull(maxExclusive)
  THEN Plan("fast", "none", Undefined, Undefined)
  ELSE LET min == IF IsNull(minInclusive) THEN MIN_SAFE_FRACT32_INCLUSIVE ELSE minInclusive
           max == IF IsNull(maxExclusive) THEN MAX_SAFE_FRACT32_EXCLUSIVE ELSE maxExclusive
           minUint32 == bitwiseFract32ToUint32(min)
           maxUint32 == IF max = MAX_SAFE_FRACT32_EXCLUSIVE
                        THEN MAX_SAFE_UINT32_EXCLUSIVE
                        ELSE bitwiseFract32ToUint32(max)
       IN  IF assertSafeRangeFract32(min, max) # "ok"
           THEN Plan("throw", assertSafeRangeFract32(min, max), Undefined, Undefined)
           ELSE Plan("sample", "none", min, Sub(maxUint32, minUint32))

unbiasedRandomFract32Source(v) == bitwiseFract32ToUint32(v)

unbiasedRandomFract32Return(min, result) == FractAdd(min, bitwiseUint32ToFract32(result))

\* A variant of unbiasedRandomInt32 without the fast path.
unbiasedRandomInt32_nofast(minInclusive, maxExclusive) ==
  LET min == IF IsNull(minInclusive) THEN MIN_SAFE_INT32_INCLUSIVE ELSE minInclusive
      max == IF IsNull(maxExclusive) THEN MAX_SAFE_INT32_EXCLUSIVE ELSE maxExclusive
      minUint32 == Add(min, rangeShift)
      maxUint32 == Add(max, rangeShift)
  IN  IF assertSafeRangeInt32(min, max) # "ok"
      THEN Plan("throw", assertSafeRangeInt32(min, max), Undefined, Undefined)
      ELSE Plan("sample", "none", min, Sub(maxUint32, minUint32))

unbiasedRandomInt32(minInclusive, maxExclusive) ==
  IF IsNull(minInclusive) /\ IsNull(maxExclusive)
  THEN Plan("fast", "none", Undefined, Undefined)
  ELSE LET min == IF IsNull(minInclusive) THEN MIN_SAFE_INT32_INCLUSIVE ELSE minInclusive
           max == IF IsNull(maxExclusive) THEN MAX_SAFE_INT32_EXCLUSIVE ELSE maxExclusive
           minUint32 == Add(min, rangeShift)
           maxUint32 == Add(max, rangeShift)
       IN  IF assertSafeRangeInt32(min, max) # "ok"
           THEN Plan("throw", assertSafeRangeInt32(min, max), Undefined, Undefined)
           ELSE Plan("sample", "none", min, Sub(maxUint32, minUint32))

\* A variant of unbiasedRandomInt32Source that leaves the shift out.
unbiasedRandomInt32Source_noshift(v) == v

unbiasedRandomInt32Source(v) == Add(v, rangeShift)

\* A variant of unbiasedRandomInt32Return that leaves min out.
unbiasedRandomInt32Return_nomin(min, result) == JsOr[result, Zero]

unbiasedRandomInt32Return(min, result) == JsOr[Add(min, result), Zero]

unbiasedRandomUint32(minInclusive, maxExclusive) ==
  IF IsNull(minInclusive) /\ IsNull(maxExclusive)
  THEN Plan("fast", "none", Undefined, Undefined)
  ELSE LET min == IF IsNull(minInclusive) THEN MIN_SAFE_UINT32_INCLUSIVE ELSE minInclusive
           max == IF IsNull(maxExclusive) THEN MAX_SAFE_UINT32_EXCLUSIVE ELSE maxExclusive
           rangeMin == Floor(min)
           rangeMax == Floor(max)
       IN  IF assertSafeRangeUint32(min, max) # "ok"
           THEN Plan("throw", assertSafeRangeUint32(min, max), Undefined, Undefined)
           ELSE Plan("sample", "none", rangeMin, Sub(rangeMax, rangeMin))

unbiasedRandomUint32Source(v) == v

\* A variant of unbiasedRandomUint32Return that leaves rangeMin out.
unbiasedRandomUint32Return_nooffset(rangeMin, value) == value

unbiasedRandomUint32Return(rangeMin, value) == Add(rangeMin, value)

\* The functions a call can enter.
Fract32Fn == "unbiasedRandomFract32"

Int32Fn == "unbiasedRandomInt32"

Uint32Fn == "unbiasedRandomUint32"

FromRangeFn == "unbiasedRandomUint32FromRange"

Wrappers == {Fract32Fn, Int32Fn, Uint32Fn}

\* What function f does with arguments a before the sampler's loop.
Enter(f, a) ==
  CASE f = Fract32Fn -> unbiasedRandomFract32(a[1], a[2])
    [] f = Int32Fn -> unbiasedRandomInt32(a[1], a[2])
    [] f = Uint32Fn -> unbiasedRandomUint32(a[1], a[2])
    [] f = FromRangeFn -> Plan("sample", "none", Zero, a[1])

\* The uint32 the sampler's randomUint32Fn() yields when f's source returns v.
SourceValue(f, v) ==
  CASE f = Fract32Fn -> unbiasedRandomFract32Source(v)
    [] f = Int32Fn -> unbiasedRandomInt32Source(v)
    [] f = Uint32Fn -> unbiasedRandomUint32Source(v)
    [] f = FromRangeFn -> v

\* What f returns when the sampler returned `value`.
ReturnValue(f, min, value) ==
  CASE f = Fract32Fn -> unbiasedRandomFract32Return(min, value)
    [] f = Int32Fn -> unbiasedRandomInt32Return(min, value)
    [] f = Uint32Fn -> unbiasedRandomUint32Return(min, value)
    [] f = FromRangeFn -> value

\* ------------------------------------------------------------------------
\* Seeds, strings and 32-bit multiplication
\* ------------------------------------------------------------------------

\* A seed is a number or a string, a string being its UTF-16 code units.
NumSeed(n) == [kind |-> "number", value |-> n]

StrSeed(codes) == [kind |-> "string", value |-> codes]

\* The product p0 + 256 * p1 as the two 16-bit halves <<high, low>>.
Halves(p0, p1) ==
  <<(p1 \div 256) + ((p0 + ((p1 % 256) * 256)) \div Two16),
    (p0 + ((p1 % 256) * 256)) % Two16>>

\* a * b for 16-bit a and b, as the two 16-bit halves <<high, low>>.
Mul16(a, b) == Halves(a * (b % 256), a * (b \div 256))

\* The low 32 bits of x * y for uint32 x and y, as an int32.
ImulUint32[x \in Nums, y \in Nums] ==
  ToInt32[<<(Mul16(Lo(x), Lo(y))[1] + Mul16(Lo(x), Hi(y))[2]
               + Mul16(Hi(x), Lo(y))[2]) % Two16,
            Mul16(Lo(x), Lo(y))[2], 0>>]

\* Math.imul(a, b)
Imul[a \in Nums, b \in Nums] == ImulUint32[ToUint32[a], ToUint32[b]]

\* t ^ (t << k) and t ^ (t >>> k)
XorShl[t \in Nums, k \in Nat] == JsXor[t, JsShl[t, k]]

XorShr[t \in Nums, k \in Nat] == JsXor[t, JsShrU[t, k]]

\* n / 10 and n % 10 for a whole n >= 0, as <<quotient, remainder>>.
DivMod10(n) ==
  LET t == ((Hi(n) % 10) * Two16) + Lo(n)
  IN  <<(<<Hi(n) \div 10, t \div 10, 0>>), t % 10>>

\* The decimal digits of a whole n >= 0, as code units.
Digits[n \in Nums] ==
  IF Hi(n) = 0 /\ Lo(n) < 10
  THEN <<48 + Lo(n)>>
  ELSE Append(Digits[DivMod10(n)[1]], 48 + DivMod10(n)[2])

\* String(seed), for a string or a whole number.
String(seed) ==
  IF seed.kind = "string" THEN seed.value
  ELSE IF Lt(seed.value, Zero) THEN <<45>> \o Digits[Sub(Zero, seed.value)]
  ELSE Digits[seed.value]

\* str.charCodeAt(k) | 0, k counted from 0: 0 (from NaN) past the end.
CharCodeAt(str, k) == IF k < Len(str) THEN Lit(str[k + 1]) ELSE Zero

\* seed === (numberSeed | 0): the seed is a number and an int32.
IsInt32Seed(seed) == seed.kind = "number" /\ seed.value = ToInt32[seed.value]

\* seed === Math.floor(numberSeed): the seed is a whole number.
IsWholeSeed(seed) == seed.kind = "number" /\ seed.value = Floor(seed.value)

\* (n / 0x100000000) | 0
Over2p32Int32(n) ==
  IF Hi(n) >= 0
  THEN ToInt32[Lit(Hi(n) \div Two16)]
  ELSE ToInt32[Sub(Zero, Lit(Hi(Sub(Zero, n)) \div Two16))]

\* (a + b) | 0 and (a - b) | 0
AddInt32(a, b) == ToInt32[Add(a, b)]

SubInt32(a, b) == ToInt32[Sub(a, b)]

\* ------------------------------------------------------------------------
\* seeding: seedToUint32
\* ------------------------------------------------------------------------

\* h = h & h
SelfAnd[h \in Nums] == JsAnd[h, h]

\* A variant of hashCode that shifts by four bits and not five.
hashCode_shift4(result, char) == SelfAnd[Add(Sub(JsShl[result, 4], result), Lit(char))]

\* result = (result << 5) - result + char; result = result & result
hashCode(result, char) == SelfAnd[Add(Sub(JsShl[result, 5], result), Lit(char))]

\* The loop of seedToUint32 over the code units from position i on.
HashFrom[h \in Nums, str \in Seq(Int), i \in Nat] ==
  IF i > Len(str) THEN h
  ELSE HashFrom[SelfAnd[Add(Sub(JsShl[h, 5], h), Lit(str[i]))], str, i + 1]

seedToUint32(seed) ==
  IF seed.kind = "number"
  THEN JsShrU[seed.value, 0]
  ELSE HashFrom[Zero, String(seed), 1]

\* ------------------------------------------------------------------------
\* Mulberry32
\* ------------------------------------------------------------------------

Mulberry32 == "Mulberry32"

\* 0x6d2b79f5
Mulberry32Increment == <<27947, 31221, 0>>

\* t = Math.imul(t ^ (t >>> 15), t | 1)
Mulberry32Imul15[t \in Nums] == Imul[XorShr[t, 15], JsOr[t, One]]

\* t ^= t + Math.imul(t ^ (t >>> 7), t | 61)
Mulberry32Imul7[t \in Nums] == JsXor[t, Add(t, Imul[XorShr[t, 7], JsOr[t, Lit(61)]])]

\* (t ^ (t >>> 14)) >>> 0
Mulberry32Output[t \in Nums] == JsShrU[XorShr[t, 14], 0]

\* internalNextUint32: the state after it and the value it returns, t being
\* the seed after state.seed += 0x6d2b79f5.
Mulberry32InternalNextUint32(state) ==
  [state |-> [seed |-> Add(state.seed, Mulberry32Increment)],
   value |-> Mulberry32Output[Mulberry32Imul7[Mulberry32Imul15[
               Add(state.seed, Mulberry32Increment)]]]]

Mulberry32BuildStateFromSeed(seed) == [seed |-> seedToUint32(seed)]

\* ------------------------------------------------------------------------
\* Xor128
\* ------------------------------------------------------------------------

Xor128 == "Xor128"

Xor128States == [w : Nums, x : Nums, y : Nums, z : Nums]

\* The state after internalNextInt32, t being x ^ (x << 11).
Xor128Advance[state \in Xor128States] ==
  [x |-> state.y, y |-> state.z, z |-> state.w,
   w |-> JsXor[state.w, JsXor[JsXor[JsShrU[state.w, 19], XorShl[state.x, 11]],
                              JsShrU[XorShl[state.x, 11], 8]]]]

Xor128InternalNextInt32(state) ==
  [state |-> Xor128Advance[state], value |-> Xor128Advance[state].w]

\* Iterations k, k + 1, ... of the seeding loop of buildStateFromSeed.
Xor128Mix[state \in Xor128States, strseed \in Seq(Int), k \in Nat] ==
  IF k >= Len(strseed) + 64 THEN state
  ELSE Xor128Mix[
         Xor128Advance[[state EXCEPT !.x = JsXor[state.x, CharCodeAt(strseed, k)]]],
         strseed, k + 1]

Xor128BuildStateFromSeed(seed) ==
  IF IsInt32Seed(seed)
  THEN Xor128Mix[[w |-> Zero, x |-> seed.value, y |-> Zero, z |-> Zero], <<>>, 0]
  ELSE Xor128Mix[[w |-> Zero, x |-> Zero, y |-> Zero, z |-> Zero], String(seed), 0]

\* ------------------------------------------------------------------------
\* XorWow
\* ------------------------------------------------------------------------

XorWow == "XorWow"

XorWowStates == [d : Nums, v : Nums, w : Nums, x : Nums, y : Nums, z : Nums]

\* 362437
XorWowIncrement == <<5, 34757, 0>>

\* The state after internalNextInt32, t being x ^ (x >>> 2).
XorWowAdvance[state \in XorWowStates] ==
  [d |-> AddInt32(state.d, XorWowIncrement),
   v |-> JsXor[XorShl[state.v, 4], XorShl[XorShr[state.x, 2], 1]],
   w |-> state.v, x |-> state.y, y |-> state.z, z |-> state.w]

\* It returns (state.d + state.v) | 0 of the new d and v.
XorWowInternalNextInt32(state) ==
  [state |-> XorWowAdvance[state],
   value |-> AddInt32(XorWowAdvance[state].d, XorWowAdvance[state].v)]

\* state.x ^= strseed.charCodeAt(k) | 0
XorWowMixIn[state \in XorWowStates, c \in Nums] ==
  [state EXCEPT !.x = JsXor[state.x, c]]

\* if (k == strseed.length) state.d = (state.x << 10) ^ (state.x >>> 4)
XorWowSetD[state \in XorWowStates, k \in Nat, length \in Nat] ==
  IF k = length
  THEN [state EXCEPT !.d = JsXor[JsShl[state.x, 10], JsShrU[state.x, 4]]]
  ELSE state

XorWowMix[state \in XorWowStates, strseed \in Seq(Int), k \in Nat] ==
  IF k >= Len(strseed) + 64 THEN state
  ELSE XorWowMix[
         XorWowAdvance[XorWowSetD[XorWowMixIn[state, CharCodeAt(strseed, k)],
                                  k, Len(strseed)]],
         strseed, k + 1]

XorWowBuildStateFromSeed(seed) ==
  IF IsInt32Seed(seed)
  THEN XorWowMix[[d |-> Zero, v |-> Zero, w |-> Zero, x |-> seed.value,
                  y |-> Zero, z |-> Zero], <<>>, 0]
  ELSE XorWowMix[[d |-> Zero, v |-> Zero, w |-> Zero, x |-> Zero,
                  y |-> Zero, z |-> Zero], String(seed), 0]

\* ------------------------------------------------------------------------
\* Tyche-i
\* ------------------------------------------------------------------------

Tychei == "Tychei"

TycheiStates == [a : Nums, b : Nums, c : Nums, d : Nums]

\* b = (b << 25) ^ (b >>> 7) ^ c;  c = (c - d) | 0;  d = (d << 24) ^ (d >>> 8) ^ a
\* Each reads only values from before the three.
TycheiMixA[s \in TycheiStates] ==
  [a |-> s.a,
   b |-> JsXor[JsXor[JsShl[s.b, 25], JsShrU[s.b, 7]], s.c],
   c |-> SubInt32(s.c, s.d),
   d |-> JsXor[JsXor[JsShl[s.d, 24], JsShrU[s.d, 8]], s.a]]

\* a = (a - b) | 0;  b = (b << 20) ^ (b >>> 12) ^ c;  c = (c - d) | 0
TycheiMixB[s \in TycheiStates] ==
  [a |-> SubInt32(s.a, s.b),
   b |-> JsXor[JsXor[JsShl[s.b, 20], JsShrU[s.b, 12]], s.c],
   c |-> SubInt32(s.c, s.d),
   d |-> s.d]

\* d = (d << 16) ^ (c >>> 16) ^ a;  a = (a - b) | 0
TycheiMixC[s \in TycheiStates] ==
  [a |-> SubInt32(s.a, s.b),
   b |-> s.b,
   c |-> s.c,
   d |-> JsXor[JsXor[JsShl[s.d, 16], JsShrU[s.c, 16]], s.a]]

\* The state after internalNextInt32.
TycheiAdvance[state \in TycheiStates] == TycheiMixC[TycheiMixB[TycheiMixA[state]]]

TycheiInternalNextInt32(state) ==
  [state |-> TycheiAdvance[state], value |-> TycheiAdvance[state].a]

TycheiMix[state \in TycheiStates, strseed \in Seq(Int), k \in Nat] ==
  IF k >= Len(strseed) + 20 THEN state
  ELSE TycheiMix[
         TycheiAdvance[[state EXCEPT !.b = JsXor[state.b, CharCodeAt(strseed, k)]]],
         strseed, k + 1]

\* {a: 0, b: 0, c: 2654435769 | 0, d: 1367130551}
TycheiInitialState ==
  [a |-> Zero, b |-> Zero, c |-> ToInt32[<<40503, 31161, 0>>], d |-> <<20860, 49591, 0>>]

TycheiBuildStateFromSeed(seed) ==
  IF IsWholeSeed(seed)
  THEN TycheiMix[[TycheiInitialState EXCEPT !.a = Over2p32Int32(seed.value),
                                            !.b = ToInt32[seed.value]], <<>>, 0]
  ELSE TycheiMix[TycheiInitialState, String(seed), 0]

\* ------------------------------------------------------------------------
\* Arrays of numbers: X[k] counts k from 0, and reads past the end are
\* undefined
\* ------------------------------------------------------------------------

At(X, k) == IF k < Len(X) THEN X[k + 1] ELSE Undefined

\* X[k] = v for k <= X.length
SetAt(X, k, v) == IF k < Len(X) THEN [X EXCEPT ![k + 1] = v] ELSE Append(X, v)

\* ------------------------------------------------------------------------
\* XorShift7
\* ------------------------------------------------------------------------

XorShift7 == "XorShift7"

XorShift7States == [X : Seq(Nums), i : Nat]

\* The v that internalNextInt32 computes from X and i.
XorShift7V[X \in Seq(Nums), i \in Nat] ==
  JsXor[JsXor[JsXor[JsXor[XorShl[XorShr[At(X, i), 7], 24],
                          XorShr[At(X, (i + 1) % 8), 10]],
                    XorShr[At(X, (i + 3) % 8), 3]],
              XorShl[At(X, (i + 4) % 8), 7]],
        XorShl[XorShl[At(X, (i + 7) % 8), 13], 9]]

\* X[i] = v;  state.i = (i + 1) & 7;  return v
XorShift7Store[X \in Seq(Nums), i \in Nat, v \in Nums] ==
  [state |-> [X |-> SetAt(X, i, v), i |-> (i + 1) % 8], value |-> v]

\* A variant of XorShift7InternalNextInt32 that leaves the cursor in place.
XorShift7InternalNextInt32_still(state) ==
  [XorShift7Store[state.X, state.i, XorShift7V[state.X, state.i]]
     EXCEPT !.state.i = state.i]

XorShift7InternalNextInt32(state) ==
  XorShift7Store[state.X, state.i, XorShift7V[state.X, state.i]]

\* x << 15 for an element x: undefined << 15 is 0.
XorShift7Left[x \in Nums] == IF x = Undefined THEN Zero ELSE JsShl[x, 15]

\* (c + x) << 13 for an element x: a sum with undefined is NaN, and
\* NaN << 13 is 0.
XorShift7Right[c \in Nums, x \in Nums] ==
  IF x = Undefined THEN Zero ELSE JsShl[Add(c, x), 13]

\* The string loop of buildStateFromSeed from position j on.
XorShift7Fill[X \in Seq(Nums), strseed \in Seq(Int), j \in Nat] ==
  IF j >= Len(strseed) THEN X
  ELSE XorShift7Fill[
         SetAt(X, j % 8, JsXor[XorShift7Left[At(X, j % 8)],
                               XorShift7Right[Lit(strseed[j + 1]), At(X, (j + 1) % 8)]]),
         strseed, j + 1]

\* while (X.length < 8) X.push(0)
XorShift7Pad[X \in Seq(Nums)] == IF Len(X) < 8 THEN XorShift7Pad[Append(X, Zero)] ELSE X

\* A variant of XorShift7NotAllZero that leaves X as it is.
XorShift7NotAllZero_unforced(X) == X

\* if every element is 0, X[7] = -1
XorShift7NotAllZero(X) ==
  IF \A j \in 0..7 : At(X, j) = Zero THEN SetAt(X, 7, Lit(-1)) ELSE X

\* n calls of nextInt32(), each one internalNextInt32()
XorShift7Discard[state \in XorShift7States, n \in Nat] ==
  IF n = 0 THEN state
  ELSE IF n = 1 THEN XorShift7InternalNextInt32(state).state
  ELSE XorShift7Discard[XorShift7Discard[state, n \div 2], n - (n \div 2)]

XorShift7BuildStateFromSeed(seed) ==
  XorShift7Discard[
    [X |-> XorShift7NotAllZero(XorShift7Pad[
             IF IsInt32Seed(seed)
             THEN <<seed.value>>
             ELSE XorShift7Fill[<<>>, String(seed), 0]]),
     i |-> 0],
    256]

\* ------------------------------------------------------------------------
\* Xor4096
\* ------------------------------------------------------------------------

Xor4096 == "Xor4096"

Xor4096States == [X : Seq(Nums), i : Nat, w : Nums]

\* 0x61c88647
Xor4096Weyl == <<25032, 34375, 0>>

\* The element the xor generator computes from X and i: v from X[(i + 34) & 127]
\* and t from X[(i + 1) & 127].
Xor4096V[X \in Seq(Nums), i \in Nat] ==
  JsXor[XorShr[XorShl[At(X, (i + 34) % 128), 13], 15],
        XorShr[XorShl[At(X, (i + 1) % 128), 17], 12]]

\* One update of the xor generator: i = (i + 1) & 127 and X[i] = v ^ t.
Xor4096XorStep[s \in Xor4096States] ==
  [s EXCEPT !.X = SetAt(s.X, (s.i + 1) % 128, Xor4096V[s.X, s.i]),
            !.i = (s.i + 1) % 128]

\* The state after internalNextInt32: w = (w + 0x61c88647) | 0 and one update
\* of the xor generator.
Xor4096Advance[state \in Xor4096States] ==
  Xor4096XorStep[[state EXCEPT !.w = AddInt32(state.w, Xor4096Weyl)]]

\* (v + (w ^ (w >>> 16))) | 0, v being the new X[i]
Xor4096Value[s \in Xor4096States] == AddInt32(At(s.X, s.i), XorShr[s.w, 16])

Xor4096InternalNextInt32(state) ==
  [state |-> Xor4096Advance[state], value |-> Xor4096Value[Xor4096Advance[state]]]

\* The locals of the first loop of buildStateFromSeed: v, w, X and the count
\* of zeroes it keeps in i.
Xor4096Locals == [v : Nums, w : Nums, X : Seq(Nums), zeroes : Nat]

\* if (strseed) v ^= strseed.charCodeAt((j + 32) % strseed.length)
Xor4096MixChar[l \in Xor4096Locals, strseed \in Seq(Int), j \in Int] ==
  IF strseed # <<>>
  THEN [l EXCEPT !.v = JsXor[l.v, Lit(strseed[((j + 32) % Len(strseed)) + 1])]]
  ELSE l

\* if (j === 0) w = v
Xor4096TakeW[l \in Xor4096Locals, j \in Int] ==
  IF j = 0 THEN [l EXCEPT !.w = l.v] ELSE l

\* v ^= v << 10;  v ^= v >>> 15;  v ^= v << 4;  v ^= v >>> 13
\* and, if j >= 0, w = (w + 0x61c88647) | 0
Xor4096Shuffle[l \in Xor4096Locals, j \in Int] ==
  [l EXCEPT !.v = XorShr[XorShl[XorShr[XorShl[l.v, 10], 15], 4], 13],
            !.w = IF j >= 0 THEN AddInt32(l.w, Xor4096Weyl) ELSE l.w]

\* x ^ y for an element x: undefined ^ y is y | 0.
Xor4096XorInto[x \in Nums, y \in Nums] ==
  IF x = Undefined THEN ToInt32[y] ELSE JsXor[x, y]

\* if (j >= 0) t = X[j & 127] ^= v + w
Xor4096Combine[l \in Xor4096Locals, j \in Int] ==
  IF j >= 0
  THEN [l EXCEPT !.X = SetAt(l.X, j % 128, Xor4096XorInto[At(l.X, j % 128), Add(l.v, l.w)])]
  ELSE l

\* if (j >= 0) i = 0 == t ? i + 1 : 0
Xor4096Count[l \in Xor4096Locals, j \in Int] ==
  IF j >= 0
  THEN [l EXCEPT !.zeroes = IF At(l.X, j % 128) = Zero THEN l.zeroes + 1 ELSE 0]
  ELSE l

\* Iteration j of that loop; strseed is empty for a numeric seed.
Xor4096InitStep(l, strseed, j) ==
  Xor4096Count[Xor4096Combine[Xor4096Shuffle[Xor4096TakeW[Xor4096MixChar[l, strseed, j], j], j], j], j]

\* Iterations lo <= j < hi of that loop, j being k - 32.
Xor4096Init[l \in Xor4096Locals, strseed \in Seq(Int), lo \in Nat, hi \in Nat] ==
  IF lo >= hi THEN l
  ELSE IF hi = lo + 1 THEN Xor4096InitStep(l, strseed, lo - 32)
  ELSE Xor4096Init[Xor4096Init[l, strseed, lo, (lo + hi) \div 2],
                   strseed, (lo + hi) \div 2, hi]

\* if (i >= 128) X[((strseed && strseed.length) || 0) & 127] = -1
\* and then i = 127, with X and w as the loop left them.
Xor4096Start[l \in Xor4096Locals, strseed \in Seq(Int)] ==
  [X |-> IF l.zeroes >= 128 THEN SetAt(l.X, Len(strseed) % 128, Lit(-1)) ELSE l.X,
   i |-> 127,
   w |-> l.w]

\* n rounds of the warm-up loop, which leaves w alone
Xor4096WarmUp[s \in Xor4096States, n \in Nat] ==
  IF n = 0 THEN s
  ELSE IF n = 1 THEN Xor4096XorStep[s]
  ELSE Xor4096WarmUp[Xor4096WarmUp[s, n \div 2], n - (n \div 2)]

\* limit = 128 or, for a longer string, strseed.length
Xor4096Limit(strseed) == IF Len(strseed) > 128 THEN Len(strseed) ELSE 128

\* buildStateFromSeed from the first v and strseed.
Xor4096Build[v \in Nums, strseed \in Seq(Int)] ==
  Xor4096WarmUp[
    Xor4096Start[
      Xor4096Init[[v |-> v, w |-> Zero, X |-> <<>>, zeroes |-> 0],
                  strseed, 0, Xor4096Limit(strseed) + 32],
      strseed],
    4 * 128]

Xor4096BuildStateFromSeed(seed) ==
  IF IsInt32Seed(seed)
  THEN Xor4096Build[seed.value, <<>>]
  ELSE Xor4096Build[Zero, Append(String(seed), 0)]

\* ------------------------------------------------------------------------
\* Alea
\* ------------------------------------------------------------------------

Alea == "Alea"

\* 2091639 = AleaFactorHi * 2^16 + AleaFactorLo
AleaFactorHi == 31

AleaFactorLo == 60023

\* internalNextFract32. With s0 a whole count S of 2^-32 and c whole, t is
\* (2091639 * S + c) / 2^32 exactly: c becomes its whole part and s2 the rest.
AleaInternalNextFract32(state) ==
  LET S == Times2p32(state.s0)
      A == Mul16(AleaFactorLo, Lo(S))
      B == Mul16(AleaFactorLo, Hi(S))
      sum0 == A[2] + Lo(state.c)
      sum1 == A[1] + B[2] + (AleaFactorHi * Lo(S)) + Hi(state.c) + (sum0 \div Two16)
      sum2 == B[1] + (AleaFactorHi * Hi(S)) + (sum1 \div Two16)
      s2 == Fract(<<sum1 % Two16, sum0 % Two16, 0>>)
  IN  [state |-> [c |-> Num(0, sum2, 0), s0 |-> state.s1, s1 |-> state.s2, s2 |-> s2],
       value |-> s2]

\* buildMash works on doubles finer than 2^-32, which the numbers here do not
\* hold; the values it returns are whole counts of 2^-32 and are tabulated
\* for the seeds of Seeds and EntropySeeds.
\* The three values mash(' ') returns first, as counts of 2^-32.
AleaMashOfSpace == <<<<56579, 8146, 0>>, <<9843, 15965, 0>>, <<60142, 5187, 0>>>>

\* The values the fourth, fifth and sixth call of mash return when they are
\* mash(seed) after three mash(' '), as counts of 2^-32, by String(seed).
AleaMashOfSeed(str) ==
  CASE str = <<49, 50, 51>> ->
       <<<<47292, 53899, 0>>, <<43242, 37563, 0>>, <<45233, 10045, 0>>>>
    [] str = <<115, 116, 97, 114, 116>> ->
       <<<<44187, 60631, 0>>, <<25499, 45502, 0>>, <<33496, 32279, 0>>>>
    [] str = <<>> ->
       <<AleaMashOfSpace[3], AleaMashOfSpace[3], AleaMashOfSpace[3]>>
    [] str = <<48>> ->
       <<<<64933, 35165, 0>>, <<41267, 25481, 0>>, <<45138, 49763, 0>>>>
    [] str = <<55>> ->
       <<<<37314, 2049, 0>>, <<41746, 13351, 0>>, <<7473, 30252, 0>>>>
    [] str = <<50, 49, 52, 55, 52, 56, 51, 54, 53, 51>> ->
       <<<<16594, 42638, 0>>, <<16649, 35705, 0>>, <<11398, 3689, 0>>>>

\* A variant of AleaSubtract that does not wrap a negative difference.
AleaSubtract_nowrap(s, m) == Fract(Sub(s, m))

\* state.s -= mash(seed); if (state.s < 0) state.s += 1
AleaSubtract(s, m) ==
  IF Lt(Sub(s, m), Zero)
  THEN Fract(Add(Sub(s, m), Times2p32(MAX_SAFE_FRACT32_EXCLUSIVE)))
  ELSE Fract(Sub(s, m))

AleaBuildStateFromSeed(seed) ==
  [c |-> One,
   s0 |-> AleaSubtract(AleaMashOfSpace[1], AleaMashOfSeed(String(seed))[1]),
   s1 |-> AleaSubtract(AleaMashOfSpace[2], AleaMashOfSeed(String(seed))[2]),
   s2 |-> AleaSubtract(AleaMashOfSpace[3], AleaMashOfSeed(String(seed))[3])]

\* ------------------------------------------------------------------------
\* Objects: the heap is the sequence of the objects allocated so far, a
\* reference is an object's position in it, and 0 is no object. A generator's
\* state is an object; the X of an XorShift7 or Xor4096 state is a reference
\* to an array, which is an object of its own.
\* ------------------------------------------------------------------------

Algorithms == {Alea, Mulberry32, Tychei, Xor128, Xor4096, XorShift7, XorWow}

HasArray(a) == a \in {XorShift7, Xor4096}

\* The state object at ref with its array's elements in place of the reference.
Load(a, h, ref) == IF HasArray(a) THEN [h[ref] EXCEPT !.X = h[h[ref].X]] ELSE h[ref]

\* The assignments an internalNext makes to the fields of the state object at
\* ref and to the elements of its array.
Store(a, h, ref, state) ==
  IF HasArray(a)
  THEN [h EXCEPT ![ref] = [state EXCEPT !.X = h[ref].X], ![h[ref].X] = state.X]
  ELSE [h EXCEPT ![ref] = state]

\* this.state = {...}: a new state object (and a new array), as <<heap, ref>>.
NewState(a, h, state) ==
  IF HasArray(a)
  THEN <<h \o <<state.X, [state EXCEPT !.X = Len(h) + 1]>>, Len(h) + 2>>
  ELSE <<Append(h, state), Len(h) + 1>>

\* {...state}: a new object with the fields of the object at ref.
SpreadCopy(h, ref) == <<Append(h, h[ref]), Len(h) + 1>>

\* {X: [...X], i} and {X: [...X], i, w}: a new array and a new object.
ArrayCopy(h, ref) ==
  <<h \o <<h[h[ref].X], [h[ref] EXCEPT !.X = Len(h) + 1]>>, Len(h) + 2>>

AleaCloneState(h, ref) == SpreadCopy(h, ref)

Mulberry32CloneState(h, ref) == SpreadCopy(h, ref)

TycheiCloneState(h, ref) == SpreadCopy(h, ref)

Xor128CloneState(h, ref) == SpreadCopy(h, ref)

\* A variant of Xor4096CloneState that copies the object and not its array.
Xor4096CloneState_spread(h, ref) == SpreadCopy(h, ref)

Xor4096CloneState(h, ref) == ArrayCopy(h, ref)

\* A variant of XorShift7CloneState that copies the object and not its array.
XorShift7CloneState_spread(h, ref) == SpreadCopy(h, ref)

XorShift7CloneState(h, ref) == ArrayCopy(h, ref)

XorWowCloneState(h, ref) == SpreadCopy(h, ref)

\* A variant of cloneState that hands back the state object it was given.
cloneState_same(a, h, ref) == <<h, ref>>

\* this.cloneState(state) of class a
cloneState(a, h, ref) ==
  CASE a = Alea -> AleaCloneState(h, ref)
    [] a = Mulberry32 -> Mulberry32CloneState(h, ref)
    [] a = Tychei -> TycheiCloneState(h, ref)
    [] a = Xor128 -> Xor128CloneState(h, ref)
    [] a = Xor4096 -> Xor4096CloneState(h, ref)
    [] a = XorShift7 -> XorShift7CloneState(h, ref)
    [] a = XorWow -> XorWowCloneState(h, ref)

\* this.buildStateFromSeed(seed) of class a: the state it builds
buildStateFromSeed(a, seed) ==
  CASE a = Alea -> AleaBuildStateFromSeed(seed)
    [] a = Mulberry32 -> Mulberry32BuildStateFromSeed(seed)
    [] a = Tychei -> TycheiBuildStateFromSeed(seed)
    [] a = Xor128 -> Xor128BuildStateFromSeed(seed)
    [] a = Xor4096 -> Xor4096BuildStateFromSeed(seed)
    [] a = XorShift7 -> XorShift7BuildStateFromSeed(seed)
    [] a = XorWow -> XorWowBuildStateFromSeed(seed)

\* The internalNext... of class a: the state after it and its value.
internalNext(a, state) ==
  CASE a = Alea -> AleaInternalNextFract32(state)
    [] a = Mulberry32 -> Mulberry32InternalNextUint32(state)
    [] a = Tychei -> TycheiInternalNextInt32(state)
    [] a = Xor128 -> Xor128InternalNextInt32(state)
    [] a = Xor4096 -> Xor4096InternalNextInt32(state)
    [] a = XorShift7 -> XorShift7InternalNextInt32(state)
    [] a = XorWow -> XorWowInternalNextInt32(state)

\* A variant of nextSource in which nextUint32 of the classes with int32
\* words hands on the word as it is.
nextSource_signed(a, f, value) ==
  CASE a = Alea ->
         (CASE f = Fract32Fn -> value
            [] f = Int32Fn -> bitwiseFract32ToInt32(value)
            [] f = Uint32Fn -> bitwiseFract32ToUint32(value))
    [] a = Mulberry32 ->
         (CASE f = Fract32Fn -> bitwiseUint32ToFract32(value)
            [] f = Int32Fn -> bitwiseUint32ToInt32(value)
            [] f = Uint32Fn -> value)
    [] OTHER ->
         (CASE f = Fract32Fn -> bitwiseInt32ToFract32(value)
            [] f = Int32Fn -> value
            [] f = Uint32Fn -> value)

\* The function nextFract32, nextInt32 or nextUint32 of class a hands to
\* wrapper f, applied to the value its internalNext... returned.
nextSource(a, f, value) ==
  CASE a = Alea ->
         (CASE f = Fract32Fn -> value
            [] f = Int32Fn -> bitwiseFract32ToInt32(value)
            [] f = Uint32Fn -> bitwiseFract32ToUint32(value))
    [] a = Mulberry32 ->
         (CASE f = Fract32Fn -> bitwiseUint32ToFract32(value)
            [] f = Int32Fn -> bitwiseUint32ToInt32(value)
            [] f = Uint32Fn -> value)
    [] OTHER ->
         (CASE f = Fract32Fn -> bitwiseInt32ToFract32(value)
            [] f = Int32Fn -> value
            [] f = Uint32Fn -> bitwiseInt32ToUint32(value))

\* ------------------------------------------------------------------------
\* SeededNumberGenerator
\* ------------------------------------------------------------------------

\* The options of a constructor: seed and seedFn are a seed (seedFn the seed
\* the function returns) or undefined, state is a reference or 0.
Options(seed, seedFn, state) == [seed |-> seed, seedFn |-> seedFn, state |-> state]

\* A variant of ResolveSeed that never calls the seed function.
ResolveSeed_ignoreSeedFn(options, entropy) ==
  IF ~IsNull(options.seed) THEN options.seed ELSE entropy

\* The seed the constructor builds the state from when randomSeed() would
\* return entropy.
ResolveSeed(options, entropy) ==
  IF ~IsNull(options.seed) THEN options.seed
  ELSE IF ~IsNull(options.seedFn) THEN options.seedFn
  ELSE entropy

\* new a(options): the heap after it and the reference to this.state.
Constructor(a, h, options, entropy) ==
  IF options.state # 0
  THEN cloneState(a, h, options.state)
  ELSE NewState(a, h, buildStateFromSeed(a, ResolveSeed(options, entropy)))

\* getState() of the generator whose state is at ref, as <<heap, ref>>.
getState(a, h, ref) == cloneState(a, h, ref)

\* ------------------------------------------------------------------------
\* State
\* ------------------------------------------------------------------------

VARIABLES
  pc,       \* "idle" | "fast" | "loop" | "done" | "threw": where the call is
  fn,       \* the function called
  args,     \* its arguments: <<minInclusive, maxExclusive>> or <<range>>
  min,      \* the wrapper's local min (rangeMin), once the call is validated
  range,    \* the sampler's range
  mask,     \* the sampler's mask
  calls,    \* the values the call's source has returned so far, in order
  result,   \* the value returned
  thrown,   \* "none", or the name of the error thrown
  caller,   \* the generator whose method made the call, "none" for a test's
  alg,      \* the class of the generators, "none" before the first is made
  heap,     \* the objects allocated so far
  gen,      \* for each generator the reference to its state, 0 before it is made
  made,     \* for each generator what it was made from
  hist,     \* for each generator its finished calls, in order
  exported, \* the reference getState() returned, 0 before it has
  exportedAt, \* how many calls its generator had finished by then
  kept,     \* the references to the states a test got from getState() and holds
  frame     \* the locals of a running call of another function of the library

callVars == <<pc, fn, args, min, range, mask, calls, result, thrown>>

genVars == <<caller, alg, heap, gen, made, hist, exported, exportedAt>>

libVars == <<kept, frame>>

vars == <<callVars, genVars, libVars>>

\* ------------------------------------------------------------------------
\* Bounds and inputs
\* ------------------------------------------------------------------------

\* The most values one call may draw from a stubbed source.
MaxDraws == 3

Uint32Args ==
  { Undefined, Lit(-1), Zero, Lit(123), Lit(124), Lit(127), Lit(8192), Lit(32768),
    MAX_SAFE_UINT32_INCLUSIVE, MAX_SAFE_UINT32_EXCLUSIVE,
    Add(MAX_SAFE_UINT32_EXCLUSIVE, One) }

RawUint32s ==
  { Zero, Lit(13), Lit(123), Lit(254), Lit(255), Lit(24575), Lit(24576),
    <<45515, 47393, 0>>, MAX_SAFE_UINT32_INCLUSIVE }

Int32Args ==
  { Undefined, Sub(MIN_SAFE_INT32_INCLUSIVE, One), MIN_SAFE_INT32_INCLUSIVE,
    Lit(-256), Lit(-1), Zero, Lit(123), Lit(124), Lit(127), Lit(256),
    MAX_SAFE_INT32_EXCLUSIVE, Add(MAX_SAFE_INT32_EXCLUSIVE, One) }

RawInt32s ==
  { MIN_SAFE_INT32_INCLUSIVE, Lit(-257), Lit(-123), Lit(-1), Zero, Lit(123),
    Lit(254), Lit(255), MAX_SAFE_INT32_INCLUSIVE }

\* 0.125, 0.75, and the fraction one sub-unit (2^-(32+FractSubBits)) above 0.125
Eighth == Fract(<<8192, 0, 0>>)

ThreeQuarters == Fract(<<49152, 0, 0>>)

Fract32Args ==
  { Undefined, Fract(Sub(Zero, One)), MIN_SAFE_FRACT32_INCLUSIVE, Fract(Lit(127)),
    Eighth, Fract(<<8192, 0, 1>>), FractAdd(Eighth, ONE_BIT_AS_FRACT32),
    Fract(<<8192, 1, 1>>), ThreeQuarters, MAX_SAFE_FRACT32_INCLUSIVE,
    MAX_SAFE_FRACT32_EXCLUSIVE, FractAdd(MAX_SAFE_FRACT32_EXCLUSIVE, ONE_BIT_AS_FRACT32) }

RawFract32s ==
  { Fract(Zero), Fract(Lit(123)), Fract(<<0, 254, 1>>), Fract(Lit(255)), Eighth,
    Fract(<<26214, 26214, 0>>), ThreeQuarters, MAX_SAFE_FRACT32_INCLUSIVE }

SamplerRanges ==
  { Zero, One, Lit(2), Lit(3), Lit(127), Lit(128), Lit(129), Lit(24576),
    <<Two15, 0, 0>>, <<Two15, 1, 0>>, MAX_SAFE_UINT32_INCLUSIVE,
    MAX_SAFE_UINT32_EXCLUSIVE, Add(MAX_SAFE_UINT32_EXCLUSIVE, One) }

\* The argument lists a test may call f with.
ArgsOf(f) ==
  CASE f = Fract32Fn -> Fract32Args \X Fract32Args
    [] f = Int32Fn -> Int32Args \X Int32Args
    [] f = Uint32Fn -> Uint32Args \X Uint32Args
    [] f = FromRangeFn -> {<<r>> : r \in SamplerRanges}

\* The generators of a run.
Gens == {"A", "B"}

\* The most calls one generator finishes.
MaxCalls == 2

\* 'start'
Start == StrSeed(<<115, 116, 97, 114, 116>>)

\* The seeds a test supplies, and the seeds randomSeed() may return.
Seeds == {NumSeed(Lit(123)), Start}

EntropySeeds == {NumSeed(Lit(7)), NumSeed(<<Two15, 5, 0>>)}

\* The calls made on a generator: the wrapper its method enters, and the bounds.
GenCalls ==
  { <<Fract32Fn, <<Eighth, ThreeQuarters>>>>,
    <<Int32Fn, <<Undefined, Undefined>>>>,
    <<Uint32Fn, <<Zero, Lit(3)>>>> }

\* The values a stubbed source of f may return.
RawsOf(f) ==
  CASE f = Fract32Fn -> RawFract32s
    [] f = Int32Fn -> RawInt32s
    [] f = Uint32Fn -> RawUint32s
    [] f = FromRangeFn -> RawUint32s
    [] OTHER -> {}

\* ------------------------------------------------------------------------
\* A call, step by step
\* ------------------------------------------------------------------------

\* No such call is running.
NoFrame == [fn |-> "none"]

Init ==
  /\ pc = "idle"
  /\ fn = "none"
  /\ args = <<>>
  /\ min = Undefined
  /\ range = Undefined
  /\ mask = Undefined
  /\ calls = <<>>
  /\ result = Undefined
  /\ thrown = "none"
  /\ caller = "none"
  /\ alg = "none"
  /\ heap = <<>>
  /\ gen = [g \in Gens |-> 0]
  /\ made = [g \in Gens |-> [seed |-> Undefined, state |-> FALSE]]
  /\ hist = [g \in Gens |-> <<>>]
  /\ exported = 0
  /\ exportedAt = 0
  /\ kept = <<>>
  /\ frame = NoFrame

\* f(a) from its entry to the sampler's first draw, its return or its throw.
Begin(f, a) ==
  LET p == Enter(f, a)
  IN  /\ fn' = f
      /\ args' = a
      /\ calls' = <<>>
      /\ thrown' = p.error
      /\ min' = p.min
      /\ range' = p.range
      /\ IF p.path = "sample"
         THEN IF UnitRange(p.range)
              THEN /\ mask' = Undefined
                   /\ result' = ReturnValue(f, p.min, Zero)
                   /\ pc' = "done"
              ELSE /\ mask' = MaskFor(p.range)
                   /\ result' = Undefined
                   /\ pc' = "loop"
         ELSE /\ mask' = Undefined
              /\ result' = Undefined
              /\ pc' = IF p.path = "fast" THEN "fast" ELSE "threw"

\* The fast path: the source is called once and its value v returned as is.
Fast(v) ==
  /\ calls' = <<v>>
  /\ result' = v
  /\ pc' = "done"
  /\ UNCHANGED <<fn, args, min, range, mask, thrown>>

\* The draws kept of a call that drew v after the draws in drawn: all of them
\* up to MaxDraws, the latest MaxDraws of them beyond.
Record(drawn, v) ==
  IF Len(drawn) < MaxDraws THEN Append(drawn, v) ELSE Append(Tail(drawn), v)

\* A variant of Iterate that gives up at the MaxDraws-th draw of a call and
\* returns its masked value whatever it is.
Iterate_capped(v) ==
  LET value == SourceValue(fn, v)
      randomValue == MaskedValue(value, mask)
  IN  /\ calls' = Record(calls, v)
      /\ IF Rejected(randomValue, range) /\ Len(calls) < MaxDraws - 1
         THEN /\ pc' = "loop"
              /\ result' = result
         ELSE /\ pc' = "done"
              /\ result' = ReturnValue(fn, min, randomValue)
      /\ UNCHANGED <<fn, args, min, range, mask, thrown>>

\* One iteration of the sampler's do-while, the source returning v.
Iterate(v) ==
  LET value == SourceValue(fn, v)
      randomValue == MaskedValue(value, mask)
  IN  /\ calls' = Record(calls, v)
      /\ IF Rejected(randomValue, range)
         THEN /\ pc' = "loop"
              /\ result' = result
         ELSE /\ pc' = "done"
              /\ result' = ReturnValue(fn, min, randomValue)
      /\ UNCHANGED <<fn, args, min, range, mask, thrown>>

\* A test calls f(a) with a stubbed source.
StubCall(f, a) ==
  /\ pc = "idle"
  /\ caller = "none"
  /\ Begin(f, a)
  /\ UNCHANGED <<genVars, libVars>>

StubFast(v) ==
  /\ pc = "fast"
  /\ caller = "none"
  /\ Fast(v)
  /\ UNCHANGED <<genVars, libVars>>

StubDraw(v) ==
  /\ pc = "loop"
  /\ caller = "none"
  /\ Len(calls) < MaxDraws
  /\ Iterate(v)
  /\ UNCHANGED <<genVars, libVars>>

\* A test holds a state that getState() returned and has made nothing of it yet.
Pending == exported # 0 /\ gen["B"] = 0

\* A variant of SeedSource in which a seed comes before a state.
SeedSource_seedFirst(options) ==
  IF ~IsNull(options.seed) THEN "seed"
  ELSE IF options.state # 0 THEN "state"
  ELSE IF ~IsNull(options.seedFn) THEN "seedFn"
  ELSE "randomSeed"

\* What the constructor makes the state from: if (options.state) ... else
\* { seed = options.seed; if (seed == null) (options.seedFn || randomSeed)() }
SeedSource(options) ==
  IF options.state # 0 THEN "state"
  ELSE IF ~IsNull(options.seed) THEN "seed"
  ELSE IF ~IsNull(options.seedFn) THEN "seedFn"
  ELSE "randomSeed"

\* new a(options) for generator g, randomSeed() returning entropy if called.
\* The second generator is of the class of the first, and is made from a seed
\* before the first is used, or from a state as soon as getState() returned it.
Construct(g, a, options, entropy) ==
  /\ pc = "idle"
  /\ gen[g] = 0
  /\ IF g = "A" THEN alg = "none" ELSE gen["A"] # 0 /\ a = alg
  /\ IF options.state = 0 THEN hist["A"] = <<>> /\ ~Pending ELSE Pending
  /\ alg' = a
  /\ \E r \in {Constructor(a, heap, options, entropy)} :
       /\ heap' = r[1]
       /\ gen' = [gen EXCEPT ![g] = r[2]]
  /\ made' = [made EXCEPT ![g] =
                [seed |-> IF options.state # 0 THEN Undefined
                          ELSE IF ~IsNull(options.seed) THEN options.seed
                          ELSE options.seedFn,
                 state |-> options.state # 0]]
  /\ UNCHANGED <<callVars, caller, hist, exported, exportedAt, libVars>>

\* A test keeps what g.getState() returns.
GetState(g) ==
  /\ pc = "idle"
  /\ gen[g] # 0
  /\ gen["B"] = 0
  /\ exported = 0
  /\ \E r \in {getState(alg, heap, gen[g])} :
       /\ heap' = r[1]
       /\ exported' = r[2]
  /\ exportedAt' = Len(hist[g])
  /\ UNCHANGED <<callVars, caller, alg, gen, made, hist, libVars>>

\* The method of generator g that enters wrapper f is called with bounds a.
GenCall(g, f, a) ==
  /\ pc = "idle"
  /\ gen[g] # 0
  /\ ~Pending
  /\ Len(hist[g]) < MaxCalls
  /\ Begin(f, a)
  /\ caller' = g
  /\ UNCHANGED <<alg, heap, gen, made, hist, exported, exportedAt, libVars>>

\* The source the method handed to the wrapper runs once: the generator's
\* internalNext... changes its state, and its value is converted for f.
\* A variant of GenSource that advances the generator twice for one value.
GenSource_twice ==
  LET out == internalNext(alg, internalNext(alg, Load(alg, heap, gen[caller])).state)
  IN  [heap |-> Store(alg, heap, gen[caller], out.state),
       value |-> nextSource(alg, fn, out.value)]

GenSource ==
  LET out == internalNext(alg, Load(alg, heap, gen[caller]))
  IN  [heap |-> Store(alg, heap, gen[caller], out.state),
       value |-> nextSource(alg, fn, out.value)]

GenFast ==
  /\ pc = "fast"
  /\ caller \in Gens
  /\ \E s \in {GenSource} :
       /\ Fast(s.value)
       /\ heap' = s.heap
  /\ UNCHANGED <<caller, alg, gen, made, hist, exported, exportedAt, libVars>>

GenDraw ==
  /\ pc = "loop"
  /\ caller \in Gens
  /\ Len(calls) < MaxDraws
  /\ \E s \in {GenSource} :
       /\ Iterate(s.value)
       /\ heap' = s.heap
  /\ UNCHANGED <<caller, alg, gen, made, hist, exported, exportedAt, libVars>>

\* The caller has the call's outcome; the next call starts afresh.
Finish ==
  /\ pc \in {"done", "threw"}
  /\ caller' = "none"
  /\ hist' = IF caller \in Gens
             THEN [hist EXCEPT ![caller] =
                     Append(@, [call |-> <<fn, args>>, draws |-> Len(calls),
                                result |-> result, thrown |-> thrown,
                                state |-> Load(alg, heap, gen[caller])])]
             ELSE hist
  /\ UNCHANGED <<alg, heap, gen, made, exported, exportedAt, libVars>>
  /\ pc' = "idle"
  /\ fn' = "none"
  /\ args' = <<>>
  /\ min' = Undefined
  /\ range' = Undefined
  /\ mask' = Undefined
  /\ calls' = <<>>
  /\ result' = Undefined
  /\ thrown' = "none"

NextSampler ==
  \/ \E f \in Wrappers \cup {FromRangeFn} : \E a \in ArgsOf(f) : StubCall(f, a)
  \/ \E v \in RawsOf(fn) : StubFast(v)
  \/ \E v \in RawsOf(fn) : StubDraw(v)
  \/ Finish

SpecSampler == Init /\ [][NextSampler]_vars

\* The options a test makes generator g with: the first from any seed, seed
\* function or neither; the second from the seed of the first, from neither,
\* or from the state a getState() returned.
OptionsOf(g) ==
  IF g = "A"
  THEN {Options(s, sf, 0) : s \in Seeds \cup {Undefined}, sf \in Seeds \cup {Undefined}}
  ELSE {Options(s, sf, st) : s \in {Undefined, made["A"].seed},
                             sf \in {Undefined, made["A"].seed},
                             st \in {exported}}

NextGen ==
  \/ \E g \in Gens : \E a \in Algorithms : \E o \in OptionsOf(g) :
       \E e \in EntropySeeds : Construct(g, a, o, e)
  \/ \E g \in Gens : GetState(g)
  \/ \E g \in Gens : \E c \in GenCalls : GenCall(g, c[1], c[2])
  \/ GenFast
  \/ GenDraw
  \/ Finish

SpecGen == Init /\ [][NextGen]_vars

\* ---------------------------------------------------------------------------
\* Exported states in the hands of a test
\* ---------------------------------------------------------------------------

\* How many exported states a test holds at most.
MaxKept == 2

\* What a test writes into an exported state.
Scribble == Lit(9)

\* A test calls getState() on the generator once more and keeps what it
\* returns beside the earlier ones.
Export ==
  /\ pc = "idle"
  /\ gen["A"] # 0
  /\ Len(kept) < MaxKept
  /\ \E r \in {getState(alg, heap, gen["A"])} :
       /\ heap' = r[1]
       /\ kept' = Append(kept, r[2])
  /\ UNCHANGED <<callVars, caller, alg, gen, made, hist, exported, exportedAt, frame>>

\* A test assigns to the field f of the k-th exported state (the index i of
\* an array-backed state is kept as a plain integer).
TamperField(k, f) ==
  /\ pc = "idle"
  /\ k \in 1..Len(kept)
  /\ f \in DOMAIN heap[kept[k]] \ {"X"}
  /\ heap' = [heap EXCEPT ![kept[k]][f] = IF f = "i" THEN Lo(Scribble) ELSE Scribble]
  /\ UNCHANGED <<callVars, caller, alg, gen, made, hist, exported, exportedAt, libVars>>

\* A test assigns to the first element of the array of the k-th exported state.
TamperElement(k) ==
  /\ pc = "idle"
  /\ k \in 1..Len(kept)
  /\ HasArray(alg)
  /\ heap' = [heap EXCEPT ![heap[kept[k]].X] = SetAt(@, 0, Scribble)]
  /\ UNCHANGED <<callVars, caller, alg, gen, made, hist, exported, exportedAt, libVars>>

\* One generator made from a seed, its methods, and a test that exports its
\* state between the calls and writes into the exported states.
NextExport ==
  \/ \E a \in Algorithms : Construct("A", a, Options(Start, Undefined, 0), NumSeed(Lit(7)))
  \/ \E c \in GenCalls : GenCall("A", c[1], c[2])
  \/ GenFast
  \/ GenDraw
  \/ Finish
  \/ Export
  \/ \E k \in 1..MaxKept : \E f \in {"i", "w", "s0", "seed", "a", "x"} : TamperField(k, f)
  \/ \E k \in 1..MaxKept : TamperElement(k)

SpecExport == Init /\ [][NextExport]_vars

\* ------------------------------------------------------------------------
\* Properties of the sampler and the ranged wrappers (SpecSampler)
\* ------------------------------------------------------------------------

\* A bound of wrapper f as a number of f's units (2^-32 for fractions, else 1).
Units(f, b) == IF f = Fract32Fn THEN Times2p32(b) ELSE b

DomainMin(f) == IF f = Int32Fn THEN <<-Two15, 0, 0>> ELSE Zero

DomainMax(f) == IF f = Int32Fn THEN <<Two15, 0, 0>> ELSE <<Two16, 0, 0>>

BothOmitted == IsNull(args[1]) /\ IsNull(args[2])

\* The bounds of the current wrapper call after defaulting, in units.
LoBound == IF IsNull(args[1]) THEN DomainMin(fn) ELSE Units(fn, args[1])

HiBound == IF IsNull(args[2]) THEN DomainMax(fn) ELSE Units(fn, args[2])

BadBounds ==
  \/ Lt(LoBound, DomainMin(fn))
  \/ Gt(HiBound, DomainMax(fn))
  \/ Le(HiBound, LoBound)

\* The current call is a wrapper call with whole, valid bounds.
WholeValidBounds ==
  /\ fn \in Wrappers
  /\ ~BothOmitted
  /\ ~BadBounds
  /\ IsInteger(LoBound)
  /\ IsInteger(HiBound)

\* The uint32 the sampler is handed when the source of f returns v, written
\* from the domains' definitions: a fraction in [0, 1) counts whole 2^-32s, an
\* int32 is moved up by 2^31.
DrawUnits(f, v) ==
  CASE f = Fract32Fn -> Floor(Times2p32(v))
    [] f = Int32Fn -> Add(v, <<Two15, 0, 0>>)
    [] OTHER -> v

\* draw AND m, as a uint32
AndMask(draw, m) == JsShrU[JsAnd[draw, m], 0]

\* The draws of the current call, as the uint32s the sampler sees.
Draws == [i \in 1..Len(calls) |-> DrawUnits(fn, calls[i])]

\* The draws the current call has discarded so far.
Discarded == IF pc = "done" THEN 1..(Len(calls) - 1) ELSE 1..Len(calls)

\* A wrapper's value for the sampled value s, in the wrapper's representation.
FromUnits(f, n) == IF f = Fract32Fn THEN Fract(n) ELSE n

\* The current call sampled `width` with mask MaskFor(width): every discarded
\* draw was masked to at least width, and the call returned its last draw
\* masked (or 0 with no draw at all for width 1), offset by LoBound.
SampledOffset(width) ==
  /\ range = width
  /\ width # One => mask = MaskFor(width)
  /\ \A i \in Discarded : Ge(AndMask(Draws[i], MaskFor(width)), width)
  /\ pc = "done" =>
       /\ IF width = One
          THEN calls = <<>> /\ result = FromUnits(fn, LoBound)
          ELSE /\ Len(calls) >= 1
               /\ Lt(AndMask(Draws[Len(calls)], MaskFor(width)), width)
               /\ result = FromUnits(fn, Add(LoBound, AndMask(Draws[Len(calls)], MaskFor(width))))
       /\ Le(LoBound, Units(fn, result))
       /\ Lt(Units(fn, result), HiBound)

\* C1: for an integer range with 1 <= range <= 2^32, whenever
\* unbiasedRandomUint32FromRange returns, its result v is an integer with
\* 0 <= v < range, and every draw it discarded had (draw AND mask) >= range.
C1_SamplerResultInRange ==
  (fn = FromRangeFn /\ IsInteger(range) /\ Ge(range, One) /\ Le(range, <<Two16, 0, 0>>)) =>
    /\ pc = "done" => IsInteger(result) /\ Ge(result, Zero) /\ Lt(result, range)
    /\ \A i \in Discarded : Ge(AndMask(calls[i], mask), range)

C1_Witness ==
  /\ fn = FromRangeFn
  /\ pc = "done"
  /\ range = Lit(127)
  /\ Len(calls) = 2
  /\ calls[1] = Lit(255)
  /\ result = Lit(123)

\* C2: for range >= 2 unbiasedRandomUint32FromRange returns (d AND mask) for the
\* first draw d whose masked value is < range, having invoked the source once
\* per draw up to and including that one; range 127 with draws [254, 13]
\* returns 126 after one draw and with draws [255, 13] returns 13 after two.
C2_FirstAcceptedDraw ==
  (fn = FromRangeFn /\ Ge(range, Lit(2))) =>
    /\ \A i \in Discarded : ~Lt(AndMask(calls[i], mask), range)
    /\ pc = "done" =>
         /\ Len(calls) >= 1
         /\ Lt(AndMask(calls[Len(calls)], mask), range)
         /\ result = AndMask(calls[Len(calls)], mask)
    /\ (range = Lit(127) /\ Len(calls) >= 1 /\ calls[1] = Lit(254)) =>
         pc = "done" /\ Len(calls) = 1 /\ result = Lit(126)
    /\ (range = Lit(127) /\ Len(calls) >= 1 /\ calls[1] = Lit(255)) =>
         /\ Len(calls) = 1 => pc = "loop"
         /\ (Len(calls) >= 2 /\ calls[2] = Lit(13)) =>
              pc = "done" /\ Len(calls) = 2 /\ result = Lit(13)

C2_Witness ==
  /\ fn = FromRangeFn
  /\ pc = "done"
  /\ range = Lit(127)
  /\ calls = <<Lit(255), Lit(13)>>
  /\ result = Lit(13)

\* C3: a wrapper call with at least one bound supplied whose bounds, after
\* defaulting, have min below the domain minimum, max above the domain maximum
\* or max <= min raises an error, returns no value and has not invoked the
\* source; bounds equal to the domain minimum and to the exclusive domain
\* maximum are accepted.
C3_InvalidBoundsRaise ==
  (fn \in Wrappers /\ ~BothOmitted) =>
    /\ BadBounds =>
         /\ pc = "threw"
         /\ thrown # "none"
         /\ calls = <<>>
         /\ result = Undefined
    /\ (~BadBounds /\ (LoBound = DomainMin(fn) \/ HiBound = DomainMax(fn))) =>
         pc # "threw" /\ thrown = "none"

C3_Witness ==
  /\ fn = Int32Fn
  /\ pc = "threw"
  /\ args = <<Lit(123), Lit(123)>>

\* C4: a wrapper called with both bounds omitted returns its source's value
\* unmodified, invokes the source exactly once, and validates, masks and
\* rejects nothing.
C4_FastPathReturnsRaw ==
  (fn \in Wrappers /\ BothOmitted) =>
    /\ pc \in {"fast", "done"}
    /\ thrown = "none"
    /\ mask = Undefined
    /\ range = Undefined
    /\ pc = "fast" => calls = <<>>
    /\ pc = "done" => Len(calls) = 1 /\ result = calls[1]

C4_Witness ==
  /\ fn = Int32Fn
  /\ BothOmitted
  /\ pc = "done"
  /\ result = Lit(-257)

\* C5: when the range is one unit wide (sampler range 1; wrapper bounds one
\* unit apart: 1 for uint32 and int32, 2^-32 for fract32) the result is
\* minInclusive (0 for the sampler itself) and the source is never invoked.
C5_UnitRangeReturnsMin ==
  /\ (fn = FromRangeFn /\ args[1] = One) =>
       pc = "done" /\ result = Zero /\ calls = <<>>
  /\ (WholeValidBounds /\ Sub(HiBound, LoBound) = One) =>
       pc = "done" /\ result = FromUnits(fn, LoBound) /\ calls = <<>>

C5_Witness ==
  /\ fn = Fract32Fn
  /\ pc = "done"
  /\ args = <<MAX_SAFE_FRACT32_INCLUSIVE, Undefined>>
  /\ result = MAX_SAFE_FRACT32_INCLUSIVE

\* C6: for integers 0 <= min < max <= 2^32 (an omitted bound defaulting)
\* unbiasedRandomUint32 returns min + s, s the sampler's value for width
\* max - min on the source's sequence, so min <= result < max; min 8192 and
\* max 32768 give width 24576 and mask 0b0111111111111111.
C6_Uint32OffsetsSample ==
  (fn = Uint32Fn /\ WholeValidBounds) =>
    /\ SampledOffset(Sub(HiBound, LoBound))
    /\ args = <<Lit(8192), Lit(32768)>> => range = Lit(24576) /\ mask = Lit(32767)

C6_Witness ==
  /\ fn = Uint32Fn
  /\ pc = "done"
  /\ args = <<Lit(8192), Lit(32768)>>
  /\ calls = <<Lit(24576), Lit(24575)>>
  /\ result = Lit(32767)

\* C7: for integers -2^31 <= min < max <= 2^31 (an omitted bound defaulting)
\* unbiasedRandomInt32 samples width max - min from the raw values moved up by
\* 2^31 into [0, 2^32) and returns min + sampled, an int32 with
\* min <= result < max, also across zero and for the full width 2^32.
C7_Int32ShiftsAndOffsets ==
  (fn = Int32Fn /\ WholeValidBounds) =>
    /\ SampledOffset(Sub(HiBound, LoBound))
    /\ \A i \in 1..Len(calls) : Ge(Draws[i], Zero) /\ Lt(Draws[i], <<Two16, 0, 0>>)
    /\ pc = "done" =>
         /\ IsInteger(result)
         /\ Ge(result, <<-Two15, 0, 0>>)
         /\ Lt(result, <<Two15, 0, 0>>)

C7_Witness ==
  /\ fn = Int32Fn
  /\ pc = "done"
  /\ args = <<MIN_SAFE_INT32_INCLUSIVE, Undefined>>
  /\ calls = <<Lit(-1)>>
  /\ result = Lit(-1)

\* C8: for fraction bounds that are multiples of 2^-32 with
\* 0 <= min < max <= 1 (an omitted bound defaulting) unbiasedRandomFract32
\* turns the bounds and each raw fraction into uint32 units, max = 1 being
\* 2^32, samples width maxUnits - minUnits and returns min + sampled * 2^-32,
\* a multiple of 2^-32 with min <= result < max.
C8_Fract32SamplesUnits ==
  (fn = Fract32Fn /\ WholeValidBounds) =>
    /\ SampledOffset(Sub(HiBound, LoBound))
    /\ pc = "done" => IsFract(result) /\ IsInteger(Times2p32(result))

C8_Witness ==
  /\ fn = Fract32Fn
  /\ pc = "done"
  /\ args = <<Eighth, MAX_SAFE_FRACT32_EXCLUSIVE>>
  /\ calls = <<Fract(<<0, 254, 1>>)>>
  /\ result = Fract(<<8192, 254, 0>>)

\* ------------------------------------------------------------------------
\* Claims about the seeded generators (SpecGen)
\* ------------------------------------------------------------------------

\* Both generators exist and generator g was built from a seed the test
\* supplied, directly or through a seed function.
Seeded(g) == gen[g] # 0 /\ ~made[g].state /\ ~IsNull(made[g].seed)

\* The number of finished calls of B that have a call of A to compare with
\* when B's first call is compared with A's call number from + 1.
Paired(from) ==
  IF Len(hist["B"]) < Len(hist["A"]) - from THEN Len(hist["B"]) ELSE Len(hist["A"]) - from

\* The first n calls of B are, method and bounds, the calls from + 1 ..
\* from + n of A.
SameCalls(from, n) ==
  \A i \in 1..n : hist["A"][from + i].call = hist["B"][i].call

\* Call number i of B returned (or threw) what call number from + i of A did.
SameOutcome(from, i) ==
  /\ hist["A"][from + i].result = hist["B"][i].result
  /\ hist["A"][from + i].thrown = hist["B"][i].thrown

\* C9: two generators of one algorithm that are constructed from equal seeds
\* (each supplied directly or returned by a seed function) return the same
\* value from every call of an identical sequence of calls, and have equal
\* states after each of these calls.
C9_EqualSeedsEqualSequences ==
  (Seeded("A") /\ Seeded("B") /\ made["A"].seed = made["B"].seed) =>
    \A n \in 1..Paired(0) :
      SameCalls(0, n) =>
        /\ SameOutcome(0, n)
        /\ hist["A"][n].state = hist["B"][n].state

C9_Witness ==
  /\ alg = Xor4096
  /\ Seeded("A") /\ Seeded("B")
  /\ made["A"].seed = Start /\ made["B"].seed = Start
  /\ Len(hist["A"]) = MaxCalls /\ Len(hist["B"]) = MaxCalls
  /\ SameCalls(0, MaxCalls)
  /\ hist["A"][1].call = <<Int32Fn, <<Undefined, Undefined>>>>
  /\ hist["B"][1].result = <<8896, 59310, 0>>
  /\ hist["B"][2].call[1] = Uint32Fn

\* Generator B was constructed from the state A.getState() returned.
Restored == gen["B"] # 0 /\ made["B"].state

\* After the export every call of B returns what the same call of A returns.
LockstepAfterExport ==
  Restored =>
    \A n \in 1..Paired(exportedAt) :
      SameCalls(exportedAt, n) => SameOutcome(exportedAt, n)

\* getState(), the construction of B from the state it returned and the calls
\* of B are steps that leave the state of A as it was.
ExportKeepsState ==
  (exported' # exported \/ gen'["B"] # gen["B"] \/ caller = "B" \/ caller' = "B") =>
    Load(alg', heap', gen'["A"]) = Load(alg, heap, gen["A"])

\* C10: when generator B is constructed from A.getState(), taken after any
\* number of calls of A, every later call returns the same value on A and on
\* B as long as the two are called alike, and the export, the construction of
\* B and the calls of B leave A's state, and so A's own sequence, as they
\* would have been without them.
C10_ExportedStateResumes == []LockstepAfterExport /\ [][ExportKeepsState]_vars

C10_Witness ==
  /\ alg = XorShift7
  /\ Restored
  /\ exportedAt = 1
  /\ Len(hist["A"]) = 2 /\ Len(hist["B"]) = 1
  /\ SameCalls(1, 1)
  /\ hist["B"][1].call[1] = Uint32Fn
  /\ hist["B"][1].draws > 0
  /\ hist["A"][2].result = hist["B"][1].result

\* ---------------------------------------------------------------------------
\* The sampler's loop for as long as its source has it run
\* ---------------------------------------------------------------------------

\* One iteration of the do-while with a stubbed source, however many came
\* before it.
StubLoop(v) ==
  /\ pc = "loop"
  /\ caller = "none"
  /\ Iterate(v)
  /\ UNCHANGED <<genVars, libVars>>

\* The source returns a value the loop accepts.
AcceptedDraw == \E v \in RawUint32s : StubLoop(v) /\ pc' = "done"

\* The sampler called with any range and any sequence of draws.
NextLoop ==
  \/ \E r \in SamplerRanges : StubCall(FromRangeFn, <<r>>)
  \/ \E v \in RawUint32s : StubLoop(v)
  \/ Finish

SpecLoop == Init /\ [][NextLoop]_vars

\* The sampler with a source that does not withhold an acceptable value for
\* ever.
SpecFairSource == SpecLoop /\ WF_vars(AcceptedDraw)

\* ---------------------------------------------------------------------------
\* seedToUint32 step by step
\* ---------------------------------------------------------------------------

\* The longest string seed.
MaxSeedLen == 6

\* The code units of the string seeds: 'z' and '0'.
SeedUnits == {122, 48}

\* The string seeds: every string of up to MaxSeedLen of these code units.
StringSeeds ==
  {StrSeed(codes) : codes \in UNION {[1..n -> SeedUnits] : n \in 0..MaxSeedLen}}

\* The number seeds: whole and not, negative, and beyond 32 bits.
NumberSeeds ==
  {NumSeed(n) : n \in {Zero, Lit(123), Lit(-1), Num(0, 1, 2), Num(-1, 65534, 2),
                       <<Two15, 5, 0>>, MAX_SAFE_UINT32_INCLUSIVE,
                       MAX_SAFE_UINT32_EXCLUSIVE, <<3 * Two16, 7, 1>>,
                       <<-Two15, 0, 0>>, <<-Two16 - 1, 9, 0>>}}

\* The frame of seedToUint32: its argument, String(seed), the loop's index,
\* result, and whether it is in the loop or at a return.
SeedFrame(seed, strseed, i, hash, at) ==
  [fn |-> "seedToUint32", seed |-> seed, strseed |-> strseed, i |-> i,
   result |-> hash, at |-> at]

\* seedToUint32(seed) up to the loop's first iteration, or to a return.
SeedCall(seed) ==
  /\ pc = "idle"
  /\ frame = NoFrame
  /\ frame' = IF seed.kind = "number"
              THEN SeedFrame(seed, <<>>, 0, JsShrU[seed.value, 0], "return")
              ELSE SeedFrame(seed, String(seed), 0, Zero,
                             IF 0 < Len(String(seed)) THEN "loop" ELSE "return")
  /\ UNCHANGED <<callVars, genVars, kept>>

\* One iteration of the loop, and the test of its condition after.
SeedChar ==
  /\ frame.fn = "seedToUint32"
  /\ frame.at = "loop"
  /\ frame' = [frame EXCEPT !.result = hashCode(@, frame.strseed[frame.i + 1]),
                            !.i = @ + 1,
                            !.at = IF frame.i + 1 < Len(frame.strseed)
                                   THEN "loop" ELSE "return"]
  /\ UNCHANGED <<callVars, genVars, kept>>

\* seedToUint32 returns.
SeedReturn ==
  /\ frame.fn = "seedToUint32"
  /\ frame.at = "return"
  /\ frame' = NoFrame
  /\ UNCHANGED <<callVars, genVars, kept>>

NextSeed ==
  \/ \E seed \in StringSeeds \cup NumberSeeds : SeedCall(seed)
  \/ SeedChar
  \/ SeedReturn

SpecSeed == Init /\ [][NextSeed]_vars

\* ---------------------------------------------------------------------------
\* The representation converters applied one after another
\* ---------------------------------------------------------------------------

\* How many converters are applied to one word at most.
MaxConversions == 2

\* The 16-bit halves the words are made of.
HalfWords == {0, 1, 255, 256, 32767, 32768, 43690, 65535}

\* The words as uint32s, as int32s and as fract32s.
Words(kind) ==
  CASE kind = "uint32" -> {<<h, l, 0>> : h \in HalfWords, l \in HalfWords}
    [] kind = "int32" -> {Signed[<<h, l, 0>>] : h \in HalfWords, l \in HalfWords}
    [] kind = "fract32" -> {Fract(<<h, l, 0>>) : h \in HalfWords, l \in HalfWords}

\* The converters by name, with the representation each takes and returns.
Converters ==
  {"bitwiseFract32ToInt32", "bitwiseFract32ToUint32", "bitwiseInt32ToFract32",
   "bitwiseInt32ToUint32", "bitwiseUint32ToFract32", "bitwiseUint32ToInt32"}

Takes(c) ==
  CASE c \in {"bitwiseFract32ToInt32", "bitwiseFract32ToUint32"} -> "fract32"
    [] c \in {"bitwiseInt32ToFract32", "bitwiseInt32ToUint32"} -> "int32"
    [] c \in {"bitwiseUint32ToFract32", "bitwiseUint32ToInt32"} -> "uint32"

Returns(c) ==
  CASE c \in {"bitwiseInt32ToFract32", "bitwiseUint32ToFract32"} -> "fract32"
    [] c \in {"bitwiseFract32ToInt32", "bitwiseUint32ToInt32"} -> "int32"
    [] c \in {"bitwiseFract32ToUint32", "bitwiseInt32ToUint32"} -> "uint32"

\* c(x)
Converted(c, x) ==
  CASE c = "bitwiseFract32ToInt32" -> bitwiseFract32ToInt32(x)
    [] c = "bitwiseFract32ToUint32" -> bitwiseFract32ToUint32(x)
    [] c = "bitwiseInt32ToFract32" -> bitwiseInt32ToFract32(x)
    [] c = "bitwiseInt32ToUint32" -> bitwiseInt32ToUint32(x)
    [] c = "bitwiseUint32ToFract32" -> bitwiseUint32ToFract32(x)
    [] c = "bitwiseUint32ToInt32" -> bitwiseUint32ToInt32(x)

\* A test takes the word x in the representation kind.
TakeWord(kind, x) ==
  /\ pc = "idle"
  /\ frame = NoFrame
  /\ frame' = [fn |-> "convert", kind |-> kind, path |-> <<>>, values |-> <<x>>]
  /\ UNCHANGED <<callVars, genVars, kept>>

\* The converter c is called with the latest value.
Convert(c) ==
  /\ frame.fn = "convert"
  /\ Len(frame.path) < MaxConversions
  /\ frame.kind = Takes(c)
  /\ frame' = [frame EXCEPT !.kind = Returns(c),
                            !.path = Append(@, c),
                            !.values = Append(@, Converted(c, frame.values[Len(frame.values)]))]
  /\ UNCHANGED <<callVars, genVars, kept>>

\* The test is done with the word.
DropWord ==
  /\ frame.fn = "convert"
  /\ frame' = NoFrame
  /\ UNCHANGED <<callVars, genVars, kept>>

NextConvert ==
  \/ \E kind \in {"uint32", "int32", "fract32"} : \E x \in Words(kind) : TakeWord(kind, x)
  \/ \E c \in Converters : Convert(c)
  \/ DropWord

SpecConvert == Init /\ [][NextConvert]_vars

\* ---------------------------------------------------------------------------
\* shuffleArray
\* ---------------------------------------------------------------------------

\* The longest array shuffled.
MaxArrayLen == 4

\* The members of the arrays.
Members == {"A", "B", "C"}

\* The arrays shuffled: every array of up to MaxArrayLen members, equal
\* members among them.
Arrays == UNION {[1..n -> Members] : n \in 0..MaxArrayLen}

\* A variant of Swapped that assigns one of the two elements only.
Swapped_half(a, x, y) == [a EXCEPT ![x + 1] = a[y + 1]]

\* [a[x], a[y]] = [a[y], a[x]], x and y counted from 0
Swapped(a, x, y) == [a EXCEPT ![x + 1] = a[y + 1], ![y + 1] = a[x + 1]]

\* A test makes the array given and calls shuffleArray with it: arrayCopy
\* is a new array of its elements, and i its length.
ShuffleCall(given) ==
  /\ pc = "idle"
  /\ frame = NoFrame
  /\ heap = <<>>
  /\ heap' = <<given, given>>
  /\ frame' = [fn |-> "shuffleArray", given |-> given, array |-> 1, arrayCopy |-> 2,
               i |-> Len(given), at |-> IF Len(given) > 0 THEN "loop" ELSE "return"]
  /\ UNCHANGED <<callVars, caller, alg, gen, made, hist, exported, exportedAt, kept>>

\* One iteration of the loop, randomUint32Fn(0, i) returning j, and the test
\* of its condition after.
ShuffleSwap(j) ==
  /\ frame.fn = "shuffleArray"
  /\ frame.at = "loop"
  /\ j \in 0..(frame.i - 1)
  /\ heap' = [heap EXCEPT ![frame.arrayCopy] = Swapped(@, frame.i - 1, j)]
  /\ frame' = [frame EXCEPT !.i = @ - 1,
                            !.at = IF frame.i - 1 > 0 THEN "loop" ELSE "return"]
  /\ UNCHANGED <<callVars, caller, alg, gen, made, hist, exported, exportedAt, kept>>

\* shuffleArray returns arrayCopy, and the test is done with both arrays.
ShuffleReturn ==
  /\ frame.fn = "shuffleArray"
  /\ frame.at = "return"
  /\ frame' = NoFrame
  /\ heap' = <<>>
  /\ UNCHANGED <<callVars, caller, alg, gen, made, hist, exported, exportedAt, kept>>

NextShuffle ==
  \/ \E given \in Arrays : ShuffleCall(given)
  \/ \E j \in 0..(MaxArrayLen - 1) : ShuffleSwap(j)
  \/ ShuffleReturn

SpecShuffle == Init /\ [][NextShuffle]_vars

\* ---------------------------------------------------------------------------
\* XorShift7's buildStateFromSeed step by step
\* ---------------------------------------------------------------------------

\* The seeds XorShift7 is built from: the string seeds, three strings of 8,
\* 9 and 10 code units, and whole numbers in and beyond the int32s.
XorShift7Seeds ==
  StringSeeds
    \cup {StrSeed(<<122, 48, 48, 48, 48, 48, 48, 48>>),
          StrSeed(<<48, 48, 48, 48, 48, 48, 48, 48, 122>>),
          StrSeed(<<122, 122, 48, 122, 48, 48, 122, 48, 122, 122>>)}
    \cup {NumSeed(n) : n \in {Zero, Lit(123), Lit(-1), <<Two15, 5, 0>>,
                               MIN_SAFE_INT32_INCLUSIVE}}

\* buildStateFromSeed(seed) up to the end of the seeding of X.
XorShift7Seeding(seed) ==
  /\ pc = "idle"
  /\ frame = NoFrame
  /\ frame' = [fn |-> "XorShift7.buildStateFromSeed", seed |-> seed, at |-> "seeded",
               seeded |-> <<>>, i |-> 0,
               X |-> IF IsInt32Seed(seed) THEN <<seed.value>>
                     ELSE XorShift7Fill[<<>>, String(seed), 0]]
  /\ UNCHANGED <<callVars, genVars, kept>>

\* X is padded to eight elements, forced to be not all zero, and adopted as
\* state.X with state.i = 0.
XorShift7Adopting ==
  /\ frame.fn = "XorShift7.buildStateFromSeed"
  /\ frame.at = "seeded"
  /\ frame' = [frame EXCEPT !.at = "adopted", !.seeded = frame.X,
                            !.X = XorShift7NotAllZero(XorShift7Pad[frame.X])]
  /\ UNCHANGED <<callVars, genVars, kept>>

\* The 256 values are discarded.
XorShift7Warming ==
  /\ frame.fn = "XorShift7.buildStateFromSeed"
  /\ frame.at = "adopted"
  /\ \E state \in {XorShift7Discard[[X |-> frame.X, i |-> 0], 256]} :
       frame' = [frame EXCEPT !.at = "built", !.X = state.X, !.i = state.i]
  /\ UNCHANGED <<callVars, genVars, kept>>

\* buildStateFromSeed returns.
XorShift7Built ==
  /\ frame.fn = "XorShift7.buildStateFromSeed"
  /\ frame.at = "built"
  /\ frame' = NoFrame
  /\ UNCHANGED <<callVars, genVars, kept>>

NextXorShift7 ==
  \/ \E seed \in XorShift7Seeds : XorShift7Seeding(seed)
  \/ XorShift7Adopting
  \/ XorShift7Warming
  \/ XorShift7Built

SpecXorShift7 == Init /\ [][NextXorShift7]_vars

\* ---------------------------------------------------------------------------
\* One generator and every kind of call
\* ---------------------------------------------------------------------------

\* Calls beside GenCalls: a range of width one, a range with the minimum
\* given alone, and bounds in the wrong order.
EdgeCalls ==
  { <<Uint32Fn, <<Lit(5), Lit(6)>>>>,
    <<Int32Fn, <<Lit(-2), Undefined>>>>,
    <<Fract32Fn, <<ThreeQuarters, Eighth>>>> }

\* One generator made from the seed 'start' and called with every kind of
\* bounds.
NextCalls ==
  \/ \E a \in Algorithms : Construct("A", a, Options(Start, Undefined, 0), NumSeed(Lit(7)))
  \/ \E c \in GenCalls \cup EdgeCalls : GenCall("A", c[1], c[2])
  \/ GenFast
  \/ GenDraw
  \/ Finish

SpecCalls == Init /\ [][NextCalls]_vars

\* ---------------------------------------------------------------------------
\* Two generators made from one seed
\* ---------------------------------------------------------------------------

\* The calls made on the two: each method without bounds, and nextInt32 and
\* nextUint32 with the same whole bounds between 0 and 2^31.
TwinCalls ==
  { <<f, <<Undefined, Undefined>>>> : f \in Wrappers }
    \cup { <<f, b>> : f \in {Int32Fn, Uint32Fn},
                      b \in { <<One, Lit(4)>>,
                              <<Sub(MAX_SAFE_INT32_EXCLUSIVE, Lit(3)), MAX_SAFE_INT32_EXCLUSIVE>> } }

\* Two generators of one class made from the seed 'start', their methods
\* called in any order.
NextTwins ==
  \/ \E g \in Gens : \E a \in Algorithms :
       Construct(g, a, Options(Start, Undefined, 0), NumSeed(Lit(7)))
  \/ \E g \in Gens : \E c \in TwinCalls : GenCall(g, c[1], c[2])
  \/ GenFast
  \/ GenDraw
  \/ Finish

SpecTwins == Init /\ [][NextTwins]_vars

\* ---------------------------------------------------------------------------
\* The constructor and the functions it calls for a seed
\* ---------------------------------------------------------------------------

\* The constructor's frame: the generator g it makes, its options, the
\* function it waits for, the seed that function returned, and how often
\* options.seedFn and randomSeed were called.
ConstructorFrame(g, options, awaits, returned, seedFnCalls, randomSeedCalls) ==
  [fn |-> "constructor", g |-> g, options |-> options, awaits |-> awaits,
   returned |-> returned, seedFnCalls |-> seedFnCalls,
   randomSeedCalls |-> randomSeedCalls]

\* new a(options) for generator g up to the call of options.seedFn or of
\* randomSeed, or to its end if it calls neither.
New(g, a, options) ==
  /\ pc = "idle"
  /\ gen[g] = 0
  /\ IF g = "A" THEN alg = "none" ELSE gen["A"] # 0 /\ a = alg
  /\ alg' = a
  /\ \E source \in {SeedSource(options)} :
       IF source \in {"seedFn", "randomSeed"}
       THEN /\ pc' = "seeding"
            /\ frame' = ConstructorFrame(g, options, source, Undefined, 0, 0)
            /\ UNCHANGED <<heap, gen, made>>
       ELSE /\ pc' = "idle"
            /\ frame' = ConstructorFrame(g, options, "none", Undefined, 0, 0)
            /\ \E r \in {IF source = "state"
                          THEN cloneState(a, heap, options.state)
                          ELSE NewState(a, heap, buildStateFromSeed(a, options.seed))} :
                 /\ heap' = r[1]
                 /\ gen' = [gen EXCEPT ![g] = r[2]]
            /\ made' = [made EXCEPT ![g] = [seed |-> IF source = "state" THEN Undefined
                                                     ELSE options.seed,
                                            state |-> source = "state"]]
  /\ UNCHANGED <<fn, args, min, range, mask, calls, result, thrown>>
  /\ UNCHANGED <<caller, hist, exported, exportedAt, kept>>

\* The function the constructor called returns seed, and the constructor
\* builds the state from it.
Seeding(seed) ==
  /\ pc = "seeding"
  /\ pc' = "idle"
  /\ frame' = [frame EXCEPT !.awaits = "none", !.returned = seed,
                            !.seedFnCalls = @ + (IF frame.awaits = "seedFn" THEN 1 ELSE 0),
                            !.randomSeedCalls = @ + (IF frame.awaits = "randomSeed" THEN 1 ELSE 0)]
  /\ \E r \in {NewState(alg, heap, buildStateFromSeed(alg, seed))} :
       /\ heap' = r[1]
       /\ gen' = [gen EXCEPT ![frame.g] = r[2]]
  /\ made' = [made EXCEPT ![frame.g] = [seed |-> seed, state |-> FALSE]]
  /\ UNCHANGED <<fn, args, min, range, mask, calls, result, thrown>>
  /\ UNCHANGED <<caller, alg, hist, exported, exportedAt, kept>>

\* options.seedFn() returns.
SeedFnReturns ==
  /\ frame.fn = "constructor"
  /\ frame.awaits = "seedFn"
  /\ Seeding(frame.options.seedFn)

\* randomSeed() returns entropy.
RandomSeedReturns(entropy) ==
  /\ frame.fn = "constructor"
  /\ frame.awaits = "randomSeed"
  /\ Seeding(entropy)

\* The seeds a test passes beside 'start': 0 and the empty string.
FalsySeeds == {NumSeed(Zero), StrSeed(<<>>)}

\* The options of the constructor: each of seed and seedFn given or not, for
\* the first generator without a state, for the second with a state the
\* first exported.
ConstructOptions(g) ==
  {Options(seed, seedFn, state) :
     seed \in FalsySeeds \cup {Start, Undefined},
     seedFn \in {NumSeed(Lit(123)), Undefined},
     state \in IF g = "A" THEN {0} ELSE {kept[k] : k \in 1..Len(kept)}}

\* Two generators of one class made from every combination of options, the
\* first used and exported before the second is made.
NextConstruct ==
  \/ \E a \in Algorithms : \E g \in Gens : \E options \in ConstructOptions(g) :
       New(g, a, options)
  \/ SeedFnReturns
  \/ \E entropy \in EntropySeeds : RandomSeedReturns(entropy)
  \/ \E c \in GenCalls : GenCall("A", c[1], c[2]) /\ gen["B"] = 0
  \/ GenFast
  \/ GenDraw
  \/ Finish
  \/ Export /\ gen["B"] = 0

SpecConstruct == Init /\ [][NextConstruct]_vars

\* ---------------------------------------------------------------------------
\* Two generators made from one seed, one state object or each other's state
\* ---------------------------------------------------------------------------

\* A test holds the state S that new a({seed: 'start'}).getState() returned,
\* the generator it came from being dropped.
Hold(a) ==
  /\ pc = "idle"
  /\ alg = "none"
  /\ kept = <<>>
  /\ \E made0 \in {Constructor(a, heap, Options(Start, Undefined, 0), NumSeed(Lit(7)))} :
       \E r \in {getState(a, made0[1], made0[2])} :
         /\ heap' = r[1]
         /\ kept' = <<r[2]>>
  /\ UNCHANGED <<callVars, caller, alg, gen, made, hist, exported, exportedAt, frame>>

\* The options a generator is made with: the seed 'start', or a state object
\* the test holds.
ShareOptions ==
  {Options(Start, Undefined, 0)}
    \cup {Options(Undefined, Undefined, kept[k]) : k \in 1..Len(kept)}

\* The calls made on the two: one without bounds, one that samples a range.
ShareCalls ==
  { <<Int32Fn, <<Undefined, Undefined>>>>,
    <<Uint32Fn, <<Zero, Lit(3)>>>> }

\* The state each class builds from the seed 'start'.
FromStart == [a \in Algorithms |-> buildStateFromSeed(a, Start)]

\* The state object at ref is a state of class a (State is the class's type
\* parameter).
IsStateOf(a, ref) == DOMAIN heap[ref] = DOMAIN FromStart[a]

\* Two generators of one class, each made from the seed 'start' or from a
\* state object the test holds: one it held before, or one the first
\* generator exported. Their methods are called in any order.
NextShare ==
  \/ \E a \in Algorithms : Hold(a)
  \/ \E a \in Algorithms : \E g \in Gens : \E options \in ShareOptions :
       /\ options.state # 0 => IsStateOf(a, options.state)
       /\ New(g, a, options)
  \/ Export /\ gen["B"] = 0
  \/ \E g \in Gens : \E c \in ShareCalls : GenCall(g, c[1], c[2])
  \/ GenFast
  \/ GenDraw
  \/ Finish

SpecShare == Init /\ [][NextShare]_vars

\* ---------------------------------------------------------------------------
\* C11
\* ---------------------------------------------------------------------------

\* The object at reference r, and the array it refers to if it has one.
OwnRefs(r) == IF HasArray(alg) THEN {r, heap[r].X} ELSE {r}

\* The exported states and the generator's state share no object.
KeptApart ==
  /\ \A k \in 1..Len(kept) : OwnRefs(kept[k]) \cap OwnRefs(gen["A"]) = {}
  /\ \A j, k \in 1..Len(kept) : j # k => OwnRefs(kept[j]) \cap OwnRefs(kept[k]) = {}
  /\ \A k \in 1..Len(kept) : Cardinality(OwnRefs(kept[k])) = Cardinality(OwnRefs(gen["A"]))

\* getState() leaves the generator's state as it is and returns a state equal
\* to it.
ExportCopies ==
  kept' # kept =>
    /\ Load(alg, heap', gen["A"]) = Load(alg, heap, gen["A"])
    /\ Load(alg, heap', kept'[Len(kept')]) = Load(alg, heap, gen["A"])
    /\ \A k \in 1..Len(kept) : Load(alg, heap', kept[k]) = Load(alg, heap, kept[k])

\* A write into an exported state leaves the generator's state and the other
\* exported states as they are.
TamperIsLocal ==
  (kept' = kept /\ gen' = gen /\ caller = "none" /\ caller' = "none" /\ heap' # heap) =>
    /\ Load(alg, heap', gen["A"]) = Load(alg, heap, gen["A"])
    /\ Cardinality({k \in 1..Len(kept) : Load(alg, heap', kept[k]) # Load(alg, heap, kept[k])}) = 1

\* C11: getState() never changes the generator's state and returns a fresh
\* deep copy of it: every export equals the state at its time, no two
\* exports and no export and the generator share an object or an array, and
\* a write into an exported copy changes neither the generator's state (of
\* which every later output and export is a function) nor another export.
C11_GetStateReturnsDeepCopy ==
  []KeptApart /\ [][ExportCopies]_vars /\ [][TamperIsLocal]_vars

\* Two exports of an array-backed generator with no call between them, the
\* first written into at its array and at a field, and a call finished after.
C11_Witness ==
  /\ alg = Xor4096
  /\ Len(kept) = 2
  /\ Len(hist["A"]) = 1
  /\ pc = "idle"
  /\ heap[heap[kept[1]].X][1] = Scribble
  /\ heap[kept[1]].i = Lo(Scribble)
  /\ heap[heap[kept[2]].X][1] # Scribble
  /\ Load(alg, heap, kept[2]) = hist["A"][1].state

\* ---------------------------------------------------------------------------
\* C12
\* ---------------------------------------------------------------------------

\* The constructor of generator g has returned and g was not called since.
JustBuilt(g) ==
  /\ frame.fn = "constructor"
  /\ frame.g = g
  /\ pc = "idle"
  /\ hist[g] = <<>>

\* The constructor called options.seedFn m times and randomSeed n times.
SeedCalls(m, n) == frame.seedFnCalls = m /\ frame.randomSeedCalls = n

\* The state of generator g is the one its class builds from seed.
BuiltFrom(g, seed) == Load(alg, heap, gen[g]) = buildStateFromSeed(alg, seed)

\* The state of generator g and what its getState() returns equal the state
\* at reference ref.
Adopted(g, ref) ==
  /\ Load(alg, heap, gen[g]) = Load(alg, heap, ref)
  /\ \E r \in {getState(alg, heap, gen[g])} : Load(alg, r[1], r[2]) = Load(alg, heap, ref)

\* What the constructor of g did for the options it was given.
PrecedenceKept(g, options) ==
  IF options.state # 0
  THEN SeedCalls(0, 0) /\ Adopted(g, options.state)
  ELSE IF ~IsNull(options.seed)
  THEN SeedCalls(0, 0) /\ BuiltFrom(g, options.seed)
  ELSE IF ~IsNull(options.seedFn)
  THEN SeedCalls(1, 0) /\ BuiltFrom(g, options.seedFn)
  ELSE SeedCalls(0, 1) /\ frame.returned \in EntropySeeds /\ BuiltFrom(g, frame.returned)

\* C12: the constructor makes the state from exactly one source: a supplied
\* state is cloned and adopted as it is, with no call of the seed function or
\* of randomSeed, and getState() right after equals it; else a supplied seed
\* (0 and '' included) is built from with no such call; else the seed
\* function is called once and its seed built from; else randomSeed is called
\* once and its seed built from. It waits for one of the two functions only
\* if neither a state nor a seed was supplied.
C12_ConstructionPrecedence ==
  /\ \A g \in Gens : JustBuilt(g) => PrecedenceKept(g, frame.options)
  /\ pc = "seeding" =>
       /\ frame.options.state = 0
       /\ IsNull(frame.options.seed)
       /\ frame.awaits = "seedFn" <=> ~IsNull(frame.options.seedFn)

\* A second generator built from a state the first exported after a call,
\* with the seed 0 and a seed function supplied as well.
C12_Witness ==
  /\ JustBuilt("B")
  /\ frame.options.state # 0
  /\ frame.options.seed = NumSeed(Zero)
  /\ ~IsNull(frame.options.seedFn)
  /\ Len(hist["A"]) = 1
  /\ Load(alg, heap, gen["B"]) = hist["A"][1].state
  /\ Load(alg, heap, gen["B"]) # buildStateFromSeed(alg, NumSeed(Zero))

\* ---------------------------------------------------------------------------
\* C13
\* ---------------------------------------------------------------------------

RECURSIVE Advanced(_, _, _)
\* The state n advances after state, for algorithm a.
Advanced(a, state, n) ==
  IF n = 0 THEN state ELSE Advanced(a, internalNext(a, state).state, n - 1)

\* The draws of the current call that were masked to range or more.
RejectedDraws == {i \in 1..Len(calls) : Ge(AndMask(Draws[i], mask), range)}

\* How often a finished call must have drawn.
DrawsNeeded ==
  IF thrown # "none" THEN 0
  ELSE IF BothOmitted THEN 1
  ELSE IF range = One THEN 0
  ELSE 1 + Cardinality(RejectedDraws)

\* A step changes a generator's state only by one advance, together with
\* one draw of the call that generator is running.
AdvancePerDraw ==
  \A g \in Gens :
    (gen[g] # 0 /\ gen'[g] = gen[g]) =>
      Load(alg, heap', gen[g]) =
        IF caller = g /\ calls' # calls /\ pc \in {"fast", "loop"}
        THEN Advanced(alg, Load(alg, heap, gen[g]), Len(calls') - Len(calls))
        ELSE Load(alg, heap, gen[g])

\* A finished call drew as often as needed, and every call after the first
\* left the state that many advances after the state the call before left.
DrawsCounted ==
  /\ (caller \in Gens /\ pc \in {"done", "threw"}) => Len(calls) = DrawsNeeded
  /\ (caller \in Gens /\ pc \in {"fast", "loop"}) => Len(calls) = Cardinality(RejectedDraws)
  /\ \A g \in Gens : \A i \in 2..Len(hist[g]) :
       hist[g][i].state = Advanced(alg, hist[g][i - 1].state, hist[g][i].draws)

\* C13: a next* call of a seeded generator advances the generator exactly
\* once per draw of the sampler: once with both bounds omitted, not at all
\* for a range of width one, and once more than it rejected draws otherwise;
\* the state after the call is the state before it advanced that often.
C13_AdvancesEqualDraws == []DrawsCounted /\ [][AdvancePerDraw]_vars

\* A call with both bounds omitted that drew once, then a call that rejected
\* a draw and accepted the next, the state two advances after the state the
\* first call left and not one.
C13_Witness ==
  /\ Len(hist["A"]) = 2
  /\ hist["A"][1].call = <<Int32Fn, <<Undefined, Undefined>>>>
  /\ hist["A"][1].draws = 1
  /\ hist["A"][2].draws = 2
  /\ hist["A"][2].state = Advanced(alg, hist["A"][1].state, 2)
  /\ hist["A"][2].state # Advanced(alg, hist["A"][1].state, 1)

\* ---------------------------------------------------------------------------
\* C14
\* ---------------------------------------------------------------------------

\* The current call samples a range from 2 to 2^32.
RangeFrom2 ==
  /\ fn = FromRangeFn
  /\ ~IsNull(range)
  /\ Ge(range, Lit(2))
  /\ Le(range, MAX_SAFE_UINT32_EXCLUSIVE)

\* The latest draw of the call after the step, masked.
LatestMasked == AndMask(calls'[Len(calls')], mask)

\* The loop is left only by a draw whose masked value is below range, which
\* is returned; a draw with a masked value of range or more leaves it
\* running with nothing returned.
LeavesOnAccepted ==
  (RangeFrom2 /\ pc = "loop" /\ calls' # calls) =>
    IF Lt(LatestMasked, range)
    THEN pc' = "done" /\ result' = LatestMasked
    ELSE pc' = "loop" /\ result' = Undefined

\* However many draws were rejected, the loop takes whatever the source
\* returns next.
AlwaysRedraws ==
  (RangeFrom2 /\ pc = "loop") =>
    /\ result = Undefined
    /\ \A i \in 1..Len(calls) : Ge(AndMask(calls[i], mask), range)
    /\ \A v \in RawUint32s : ENABLED StubLoop(v)

\* C14: the rejection loop has no cap. For a range from 2 to 2^32 it returns
\* when, and only when, the source yields a draw whose masked value is below
\* range; after any number of rejected draws it draws again and has returned
\* nothing; with a source that eventually yields such a draw every call
\* returns.
C14_LoopRunsUntilAccepted ==
  /\ []AlwaysRedraws
  /\ [][LeavesOnAccepted]_vars
  /\ (RangeFrom2 /\ pc = "loop") ~> (pc = "done")

\* A call that rejected draws of different values and returned the masked
\* value of the draw after them.
C14_Witness ==
  /\ RangeFrom2
  /\ pc = "done"
  /\ Len(calls) = MaxDraws
  /\ \A i \in 1..(MaxDraws - 1) : Ge(AndMask(calls[i], mask), range)
  /\ calls[1] # calls[2]
  /\ result = AndMask(calls[MaxDraws], mask)

\* ---------------------------------------------------------------------------
\* C15
\* ---------------------------------------------------------------------------

\* seedToUint32 is at a return.
SeedReturning == frame.fn = "seedToUint32" /\ frame.at = "return"

\* C15: seedToUint32 returns an integer in [0, 2^32) for every seed, a
\* finite number or a string of any length.
C15_SeedIsUint32 ==
  SeedReturning =>
    /\ IsInteger(frame.result)
    /\ Ge(frame.result, Zero)
    /\ Lt(frame.result, MAX_SAFE_UINT32_EXCLUSIVE)

\* seedToUint32('zzzzzz') returns -685785664.
C15_Witness ==
  /\ SeedReturning
  /\ frame.seed = StrSeed(<<122, 122, 122, 122, 122, 122>>)
  /\ frame.result = Sub(<<55071, 48576, 0>>, MAX_SAFE_UINT32_EXCLUSIVE)

\* ---------------------------------------------------------------------------
\* C16
\* ---------------------------------------------------------------------------

\* 31 * h + c wrapped to an int32, by multiplication.
Times31Plus(h, c) == ToInt32[Add(Imul[Lit(31), h], Lit(c))]

RECURSIVE RollingHash(_, _)
\* The rolling hash of the first n code units of str, from 0.
RollingHash(str, n) ==
  IF n = 0 THEN Zero ELSE Times31Plus(RollingHash(str, n - 1), str[n])

\* a - b is a multiple of 2^32.
SameMod2p32(a, b) ==
  /\ Frac(Sub(a, b)) = 0
  /\ Lo(Sub(a, b)) = 0
  /\ Hi(Sub(a, b)) % Two16 = 0

\* Every iteration of the loop takes result to 31 * result + char wrapped to
\* an int32.
HashStepIs31 ==
  (frame.fn = "seedToUint32" /\ frame.at = "loop" /\ frame' # frame) =>
    frame'.result = Times31Plus(frame.result, frame.strseed[frame.i + 1])

\* In the loop result is the rolling hash of the code units read; at a
\* return it is that of the whole string, an int32, or for a number seed
\* the integer in [0, 2^32) that differs from the seed's integer part by a
\* multiple of 2^32; and it is what the generators seed themselves with.
HashIsRolling ==
  frame.fn = "seedToUint32" =>
    IF frame.seed.kind = "number"
    THEN /\ IsInteger(frame.result)
         /\ Ge(frame.result, Zero)
         /\ Lt(frame.result, MAX_SAFE_UINT32_EXCLUSIVE)
         /\ SameMod2p32(frame.result, Trunc(frame.seed.value))
         /\ frame.result = seedToUint32(frame.seed)
    ELSE /\ frame.result = RollingHash(frame.strseed, frame.i)
         /\ frame.result = ToInt32[frame.result]
         /\ frame.at = "return" =>
              /\ frame.i = Len(frame.strseed)
              /\ frame.strseed = frame.seed.value
              /\ frame.result = seedToUint32(frame.seed)

\* C16: for a string seed seedToUint32 is the rolling hash h := 31 * h + c
\* from h = 0, wrapped to a 32-bit two's complement integer after every code
\* unit, the shift-and-subtract step agreeing with 31 * h + c modulo 2^32 at
\* every step; for a finite number seed it is the seed's integer part
\* reduced modulo 2^32.
C16_SeedIsRollingHash == []HashIsRolling /\ [][HashStepIs31]_vars

\* The hash of a string of six code units, 'z0' the first two, that wrapped
\* to a negative int32 at its last step.
C16_Witness ==
  /\ SeedReturning
  /\ Len(frame.strseed) = 6
  /\ frame.strseed[1] = 122
  /\ frame.strseed[2] = 48
  /\ Lt(frame.result, Zero)
  /\ Ge(RollingHash(frame.strseed, 5), Zero)

\* ---------------------------------------------------------------------------
\* C17
\* ---------------------------------------------------------------------------

\* C17: the error a ranged wrapper raises for bounds out of the domain or in
\* the wrong order is a RangeError.
C17_RaisesRangeError ==
  (fn \in Wrappers /\ thrown # "none") => thrown = "RangeError"

\* unbiasedRandomUint32(123, 123, ...) threw an Error.
C17_Witness ==
  /\ fn = Uint32Fn
  /\ args = <<Lit(123), Lit(123)>>
  /\ pc = "threw"
  /\ thrown = "Error"

\* ---------------------------------------------------------------------------
\* C18
\* ---------------------------------------------------------------------------

\* The converters c and then d were applied to the word.
Went(c, d) == frame.fn = "convert" /\ frame.path = <<c, d>>

\* x is a whole number from lo up to and not hi.
WholeIn(x, lo, hi) == IsInteger(x) /\ Ge(x, lo) /\ Lt(x, hi)

\* The latest value is of the representation it is held to be of.
WellRepresented(kind, x) ==
  CASE kind = "uint32" -> WholeIn(x, Zero, MAX_SAFE_UINT32_EXCLUSIVE)
    [] kind = "int32" -> WholeIn(x, MIN_SAFE_INT32_INCLUSIVE, MAX_SAFE_INT32_EXCLUSIVE)
    [] kind = "fract32" -> WholeIn(Times2p32(x), Zero, MAX_SAFE_UINT32_EXCLUSIVE)

\* C18: on 32-bit words the converters are mutually inverse: for a uint32 u,
\* Int32ToUint32(Uint32ToInt32(u)) = u and Fract32ToUint32(Uint32ToFract32(u))
\* = u; for an int32 i, Uint32ToInt32(Int32ToUint32(i)) = i and
\* Fract32ToInt32(Int32ToFract32(i)) = i; every converter yields a value of
\* its target representation, the two ...ToFract32 a multiple of 2^-32 in
\* [0, 1).
C18_ConvertersInverse ==
  /\ frame.fn = "convert" => WellRepresented(frame.kind, frame.values[Len(frame.values)])
  /\ (\/ Went("bitwiseUint32ToInt32", "bitwiseInt32ToUint32")
      \/ Went("bitwiseUint32ToFract32", "bitwiseFract32ToUint32")
      \/ Went("bitwiseInt32ToUint32", "bitwiseUint32ToInt32")
      \/ Went("bitwiseInt32ToFract32", "bitwiseFract32ToInt32")) =>
       frame.values[3] = frame.values[1]

\* -1 went to 2^32 - 1 and back to -1.
C18_Witness ==
  /\ Went("bitwiseInt32ToUint32", "bitwiseUint32ToInt32")
  /\ frame.values = <<Lit(-1), MAX_SAFE_UINT32_INCLUSIVE, Lit(-1)>>

\* ---------------------------------------------------------------------------
\* C19
\* ---------------------------------------------------------------------------

\* How often e is an element of a.
Count(a, e) == Cardinality({k \in DOMAIN a : a[k] = e})

\* a and b have the same elements, each as often.
Permutation(a, b) == Len(a) = Len(b) /\ \A e \in Members : Count(a, e) = Count(b, e)

\* C19: with a randomUint32Fn that returns an integer j with 0 <= j < i for
\* (0, i), shuffleArray returns a new array that is a permutation of the
\* given one, the same elements each as often, and leaves the given array
\* as it was.
C19_ShuffleIsPermutation ==
  frame.fn = "shuffleArray" =>
    /\ heap[frame.array] = frame.given
    /\ frame.arrayCopy # frame.array
    /\ Permutation(heap[frame.arrayCopy], frame.given)
    /\ frame.at = "return" => frame.i = 0

\* An array with a member twice returned in another order.
C19_Witness ==
  /\ frame.fn = "shuffleArray"
  /\ frame.at = "return"
  /\ frame.given = <<"A", "B", "A", "C">>
  /\ heap[frame.arrayCopy] = <<"C", "A", "B", "A">>

\* ---------------------------------------------------------------------------
\* C20
\* ---------------------------------------------------------------------------

\* 2^n for n from 0 to 32.
PowersOfTwo == {<<0, 2^n, 0>> : n \in 0..15} \cup {<<2^n, 0, 0>> : n \in 0..16}

\* The sampler has built a mask for a whole range from 2 to 2^32.
MaskBuilt ==
  /\ pc \in {"loop", "done"}
  /\ ~IsNull(range)
  /\ IsInteger(range)
  /\ Ge(range, Lit(2))
  /\ Le(range, MAX_SAFE_UINT32_EXCLUSIVE)

\* C20: for a whole range from 2 to 2^32 the mask of the shift loop is
\* 2^n - 1 for the least n with 2^n - 1 >= range - 1: an unsigned value below
\* 2^32 one less than a power of two, at least range - 1, and with
\* mask + 1 < 2 * range, so that no smaller such mask is at least range - 1
\* and at least half of the masked values are accepted; it is 2^32 - 1 for
\* every range above 2^31.
C20_MaskIsLeastAllOnes ==
  MaskBuilt =>
    /\ Add(mask, One) \in PowersOfTwo
    /\ Ge(mask, Zero)
    /\ Lt(mask, MAX_SAFE_UINT32_EXCLUSIVE)
    /\ Ge(mask, Sub(range, One))
    /\ Lt(Add(mask, One), Add(range, range))
    /\ Gt(range, MAX_SAFE_INT32_EXCLUSIVE) => mask = MAX_SAFE_UINT32_INCLUSIVE

\* The range 2^31 + 1 with the mask 2^32 - 1.
C20_Witness ==
  /\ fn = FromRangeFn
  /\ pc = "loop"
  /\ range = <<Two15, 1, 0>>
  /\ mask = MAX_SAFE_UINT32_INCLUSIVE

\* ---------------------------------------------------------------------------
\* C21
\* ---------------------------------------------------------------------------

\* A wrapper's validation accepted the bounds of the current call.
BoundsAccepted ==
  /\ fn \in Wrappers
  /\ ~BothOmitted
  /\ pc \in {"loop", "done"}
  /\ thrown = "none"

\* C21: whenever a ranged wrapper's validation accepts its bounds, the width
\* it passes to the sampler is an integer of at least 1, also for fraction
\* bounds that differ by less than 2^-32.
C21_AcceptedWidthIsPositive ==
  BoundsAccepted => IsInteger(range) /\ Ge(range, One)

\* unbiasedRandomFract32(0.125, 0.125 + 2^-34, ...) samples the width 0
\* with the mask 0 and has rejected every draw so far.
C21_Witness ==
  /\ fn = Fract32Fn
  /\ args = <<Eighth, Fract(<<8192, 0, 1>>)>>
  /\ thrown = "none"
  /\ range = Zero
  /\ mask = Zero
  /\ pc = "loop"
  /\ Len(calls) = MaxDraws

\* ---------------------------------------------------------------------------
\* C22
\* ---------------------------------------------------------------------------

\* C22: after construction from any seed and after any number of advances
\* the state word `seed` of Mulberry32 is an integer in [0, 2^32).
C22_Mulberry32SeedIs32Bits ==
  (alg = Mulberry32 /\ gen["A"] # 0) =>
    WholeIn(heap[gen["A"]].seed, Zero, MAX_SAFE_UINT32_EXCLUSIVE)

\* A Mulberry32 generator made from 'start' whose seed has left 32 bits
\* after two calls: it is the seed built plus 0x6d2b79f5 for every draw.
C22_Witness ==
  /\ alg = Mulberry32
  /\ Len(hist["A"]) = 2
  /\ pc = "idle"
  /\ Ge(heap[gen["A"]].seed, MAX_SAFE_UINT32_EXCLUSIVE)
  /\ heap[gen["A"]] =
       Advanced(Mulberry32, Mulberry32BuildStateFromSeed(Start),
                hist["A"][1].draws + hist["A"][2].draws)

\* ---------------------------------------------------------------------------
\* C23
\* ---------------------------------------------------------------------------

\* The four words of a Xor128 state are all zero.
Xor128AllZero(state) ==
  state.w = Zero /\ state.x = Zero /\ state.y = Zero /\ state.z = Zero

\* C23: construction of Xor128 from any seed, 0 and the empty string
\* included, leaves a state whose words w, x, y, z are not all zero.
C23_Xor128StateNotAllZero ==
  (alg = Xor128 /\ gen["A"] # 0) => ~Xor128AllZero(heap[gen["A"]])

\* A Xor128 generator made from the seed 0: its state was all zero, two
\* calls returned 0 and left it all zero.
C23_Witness ==
  /\ alg = Xor128
  /\ made["A"].seed = NumSeed(Zero)
  /\ Xor128BuildStateFromSeed(NumSeed(Zero)) = heap[gen["A"]]
  /\ Xor128AllZero(heap[gen["A"]])
  /\ Len(hist["A"]) = 2
  /\ hist["A"][1].call = <<Int32Fn, <<Undefined, Undefined>>>>
  /\ hist["A"][1].result = Zero
  /\ hist["A"][2].call = <<Int32Fn, <<Undefined, Undefined>>>>
  /\ hist["A"][2].result = Zero

\* ---------------------------------------------------------------------------
\* C24
\* ---------------------------------------------------------------------------

\* x is an int32.
IsInt32(x) == WholeIn(x, MIN_SAFE_INT32_INCLUSIVE, MAX_SAFE_INT32_EXCLUSIVE)

\* Every element of X, padded with zeroes, is zero.
AllZero(X) == \A j \in 1..Len(X) : X[j] = Zero

\* C24: for every seed, 0 and the empty string included, the buffer
\* XorShift7 adopts just before the 256 warm-up advances has exactly 8
\* words, not all zero: if seeding leaves all words zero, slot 7 is -1 (and
\* the others 0), else the buffer is the seeded one padded with zeroes. The
\* state built from it is the one the generators are built with.
C24_XorShift7BufferNotAllZero ==
  frame.fn = "XorShift7.buildStateFromSeed" =>
    /\ frame.at \in {"adopted", "built"} =>
         /\ Len(frame.X) = 8
         /\ \A j \in 1..8 : IsInt32(frame.X[j])
         /\ ~AllZero(frame.X)
    /\ frame.at = "adopted" =>
         /\ Len(frame.seeded) <= 8
         /\ IF AllZero(frame.seeded)
            THEN frame.X = <<Zero, Zero, Zero, Zero, Zero, Zero, Zero, Lit(-1)>>
            ELSE \A j \in 1..8 :
                   frame.X[j] = IF j <= Len(frame.seeded) THEN frame.seeded[j] ELSE Zero
    /\ frame.at = "built" =>
         [X |-> frame.X, i |-> frame.i] = XorShift7BuildStateFromSeed(frame.seed)

\* The seed 0 left eight zeroes, and slot 7 was set to -1.
C24_Witness ==
  /\ frame.fn = "XorShift7.buildStateFromSeed"
  /\ frame.at = "adopted"
  /\ frame.seed = NumSeed(Zero)
  /\ frame.seeded = <<Zero>>
  /\ frame.X[8] = Lit(-1)

\* ---------------------------------------------------------------------------
\* C25
\* ---------------------------------------------------------------------------

\* The buffer buildStateFromSeed adopts for a seed, before the warm-up.
XorShift7Adopted(seed) ==
  XorShift7NotAllZero(XorShift7Pad[IF IsInt32Seed(seed) THEN <<seed.value>>
                                   ELSE XorShift7Fill[<<>>, String(seed), 0]])

\* The string seeds of the length of seed (1 to 8 code units) that differ
\* from it in at least one code unit.
SameLengthSeeds(seed) ==
  {other \in XorShift7Seeds :
     /\ other.kind = "string"
     /\ Len(other.value) = Len(seed.value)
     /\ other # seed}

\* C25: every character of a string seed of 1 to 8 characters influences
\* the buffer XorShift7 adopts before the warm-up: a string seed of the same
\* length that differs in at least one character gives a different buffer
\* (and so a different state after the warm-up).
C25_EveryCharacterInfluences ==
  (/\ frame.fn = "XorShift7.buildStateFromSeed"
   /\ frame.at = "adopted"
   /\ frame.seed.kind = "string"
   /\ Len(frame.seed.value) \in 1..8) =>
    \A other \in SameLengthSeeds(frame.seed) :
      /\ XorShift7Adopted(other) # frame.X
      /\ XorShift7BuildStateFromSeed(other) # XorShift7BuildStateFromSeed(frame.seed)

\* The seeds 'z' and '0' differ in their only character, and both leave the
\* buffer of eight zeroes that is forced to slot 7 = -1.
C25_Witness ==
  /\ frame.fn = "XorShift7.buildStateFromSeed"
  /\ frame.at = "adopted"
  /\ frame.seed = StrSeed(<<122>>)
  /\ frame.seeded = <<Zero>>
  /\ frame.X = <<Zero, Zero, Zero, Zero, Zero, Zero, Zero, Lit(-1)>>
  /\ StrSeed(<<48>>) \in SameLengthSeeds(frame.seed)
  /\ XorShift7Adopted(StrSeed(<<48>>)) = frame.X

\* ---------------------------------------------------------------------------
\* C26
\* ---------------------------------------------------------------------------

\* The algorithms whose state is a circular buffer X with a cursor i.
Circular == {XorShift7, Xor4096}

\* The number of words of the buffer of algorithm a.
BufferLength(a) == IF a = XorShift7 THEN 8 ELSE 128

\* state has a buffer of n int32 words and a cursor within it.
BufferShaped(state, n) ==
  /\ Len(state.X) = n
  /\ \A k \in 1..n : IsInt32(state.X[k])
  /\ state.i \in 0..(n - 1)

\* The slots in which the buffers of two states of n words differ.
SlotsChanged(before, after, n) == {k \in 1..n : after.X[k] # before.X[k]}

\* after is before, or before advanced by one position of the cursor with
\* at most one slot overwritten: the slot the cursor left (XorShift7) or the
\* slot it arrived at (Xor4096).
OneSlotStep(a, before, after, n) ==
  \/ after = before
  \/ /\ after.i = (before.i + 1) % n
     /\ SlotsChanged(before, after, n)
          \subseteq {(IF a = XorShift7 THEN before.i ELSE after.i) + 1}

\* Every buffer generator has a well-shaped state.
BuffersShaped ==
  alg \in Circular =>
    \A g \in Gens : gen[g] # 0 => BufferShaped(Load(alg, heap, gen[g]), BufferLength(alg))

\* A step of a generator that stays the same object is at most one advance.
BuffersStep ==
  alg \in Circular =>
    \A g \in Gens :
      (gen[g] # 0 /\ gen'[g] = gen[g]) =>
        OneSlotStep(alg, Load(alg, heap, gen[g]), Load(alg, heap', gen[g]), BufferLength(alg))

\* C26: after construction from a seed and after any number of advances,
\* the buffer of XorShift7 has exactly 8 and that of Xor4096 exactly 128
\* int32 words and the cursor is an integer within the buffer; each advance
\* moves the cursor by one position modulo the length and overwrites one
\* slot, leaving every other slot unchanged.
C26_CircularBufferShape == []BuffersShaped /\ [][BuffersStep]_vars

\* Xor4096 built from the seed 0, after two calls that drew three times in
\* all: the cursor has wrapped from 127 to 2.
C26_Witness ==
  /\ alg = Xor4096
  /\ made["A"].seed = NumSeed(Zero)
  /\ Len(hist["A"]) = 2
  /\ hist["A"][1].draws + hist["A"][2].draws = 3
  /\ pc = "idle"
  /\ Xor4096BuildStateFromSeed(NumSeed(Zero)).i = 127
  /\ Load(alg, heap, gen["A"]).i = 2
  /\ BufferShaped(Load(alg, heap, gen["A"]), 128)

\* ---------------------------------------------------------------------------
\* C27
\* ---------------------------------------------------------------------------

\* s is a multiple of 2^-32 in [0, 1).
IsFract32(s) == IsFract(s) /\ WholeIn(Times2p32(s), Zero, MAX_SAFE_UINT32_EXCLUSIVE)

\* The carry of state is an integer in [0, 2091639) and its accumulators
\* are multiples of 2^-32 in [0, 1).
AleaInRange(state) ==
  /\ WholeIn(state.c, Zero, <<AleaFactorHi, AleaFactorLo, 0>>)
  /\ IsFract32(state.s0)
  /\ IsFract32(state.s1)
  /\ IsFract32(state.s2)

\* C27: the state of an Alea generator built from a seed has, after any
\* number of advances, an integer carry c with 0 <= c < 2091639 and
\* accumulators s0, s1, s2 that are multiples of 2^-32 in [0, 1); the raw
\* value the next advance returns is a multiple of 2^-32 in [0, 1).
C27_AleaStateInRange ==
  alg = Alea =>
    \A g \in Gens :
      gen[g] # 0 =>
        /\ AleaInRange(Load(alg, heap, gen[g]))
        /\ IsFract32(AleaInternalNextFract32(Load(alg, heap, gen[g])).value)
        /\ AleaInRange(AleaInternalNextFract32(Load(alg, heap, gen[g])).state)

\* Alea built from the seed 0 (carry 1), advanced three times by two calls:
\* the carry is above 2^16.
C27_Witness ==
  /\ alg = Alea
  /\ made["A"].seed = NumSeed(Zero)
  /\ Len(hist["A"]) = 2
  /\ hist["A"][1].draws + hist["A"][2].draws = 3
  /\ pc = "idle"
  /\ AleaBuildStateFromSeed(NumSeed(Zero)).c = One
  /\ Load(alg, heap, gen["A"]) = Advanced(Alea, AleaBuildStateFromSeed(NumSeed(Zero)), 3)
  /\ Gt(Load(alg, heap, gen["A"]).c, <<1, 0, 0>>)

\* ---------------------------------------------------------------------------
\* C28
\* ---------------------------------------------------------------------------

\* The state generator g was in when its i-th call began.
BeforeCall(g, i) == IF i = 1 THEN FromStart[alg] ELSE hist[g][i - 1].state

\* The finished calls, as pairs of a generator and an index into its history.
FinishedCalls == {c \in Gens \X (1..MaxCalls) : c[2] <= Len(hist[c[1]])}

\* The record of finished call c.
CallOf(c) == hist[c[1]][c[2]]

\* Call c was method f without bounds, made in the state call d was made in.
UnboundedTwin(c, f, d) ==
  /\ CallOf(c).call = <<f, <<Undefined, Undefined>>>>
  /\ BeforeCall(c[1], c[2]) = BeforeCall(d[1], d[2])

\* An int32 modulo 2^32.
Mod2p32(int32) ==
  IF Lt(int32, Zero) THEN Add(int32, MAX_SAFE_UINT32_EXCLUSIVE) ELSE int32

\* A generator not yet called is in the state built from 'start'.
StartsFromStart ==
  \A g \in Gens :
    (gen[g] # 0 /\ hist[g] = <<>> /\ caller # g) =>
      Load(alg, heap, gen[g]) = FromStart[alg]

\* C28: the three methods without bounds are three encodings of one raw
\* word: called in equal states, nextUint32() returns nextInt32() modulo
\* 2^32, nextFract32() returns nextUint32() / 2^32, and whichever is called
\* leaves the same state.
C28_MethodsEncodeOneWord ==
  /\ StartsFromStart
  /\ \A c \in FinishedCalls : \A d \in FinishedCalls :
       /\ (UnboundedTwin(c, Int32Fn, d) /\ UnboundedTwin(d, Uint32Fn, c)) =>
            /\ CallOf(d).result = Mod2p32(CallOf(c).result)
            /\ CallOf(d).state = CallOf(c).state
       /\ (UnboundedTwin(c, Uint32Fn, d) /\ UnboundedTwin(d, Fract32Fn, c)) =>
            /\ Times2p32(CallOf(d).result) = CallOf(c).result
            /\ CallOf(d).state = CallOf(c).state
       /\ (UnboundedTwin(c, Int32Fn, d) /\ UnboundedTwin(d, Fract32Fn, c)) =>
            /\ Times2p32(CallOf(d).result) = Mod2p32(CallOf(c).result)
            /\ CallOf(d).state = CallOf(c).state

\* The first calls of the two were nextInt32(), which returned a negative
\* value, and nextUint32(); their second calls nextFract32() and nextUint32().
C28_Witness ==
  /\ Len(hist["A"]) = 2
  /\ Len(hist["B"]) = 2
  /\ hist["A"][1].call = <<Int32Fn, <<Undefined, Undefined>>>>
  /\ hist["B"][1].call = <<Uint32Fn, <<Undefined, Undefined>>>>
  /\ Lt(hist["A"][1].result, Zero)
  /\ hist["B"][1].result = Add(hist["A"][1].result, MAX_SAFE_UINT32_EXCLUSIVE)
  /\ hist["A"][2].call = <<Fract32Fn, <<Undefined, Undefined>>>>
  /\ hist["B"][2].call = <<Uint32Fn, <<Undefined, Undefined>>>>
  /\ hist["A"][2].state = hist["B"][2].state

\* ---------------------------------------------------------------------------
\* C29
\* ---------------------------------------------------------------------------

\* b is a pair of whole bounds min, max with 0 <= min < max <= 2^31.
InBothDomains(b) ==
  /\ ~IsNull(b[1])
  /\ ~IsNull(b[2])
  /\ IsInteger(b[1])
  /\ IsInteger(b[2])
  /\ Le(Zero, b[1])
  /\ Lt(b[1], b[2])
  /\ Le(b[2], MAX_SAFE_INT32_EXCLUSIVE)

\* Calls c and d were nextInt32 and nextUint32 with the same bounds of both
\* domains, made in equal states.
SignedAndUnsigned(c, d) ==
  /\ CallOf(c).call[1] = Int32Fn
  /\ CallOf(d).call[1] = Uint32Fn
  /\ CallOf(c).call[2] = CallOf(d).call[2]
  /\ InBothDomains(CallOf(c).call[2])
  /\ BeforeCall(c[1], c[2]) = BeforeCall(d[1], d[2])

\* C29: for whole bounds 0 <= min < max <= 2^31, nextInt32(min, max) and
\* nextUint32(min, max) called in equal states return the same value, draw
\* equally often and leave equal states, although nextInt32 adds 2^31 to
\* every raw value before it is masked.
C29_SignedMatchesUnsigned ==
  /\ StartsFromStart
  /\ \A c \in FinishedCalls : \A d \in FinishedCalls :
       SignedAndUnsigned(c, d) =>
         /\ CallOf(c).thrown = "none"
         /\ CallOf(d).thrown = "none"
         /\ CallOf(c).result = CallOf(d).result
         /\ CallOf(c).draws = CallOf(d).draws
         /\ CallOf(c).state = CallOf(d).state

\* nextInt32(1, 4) and nextUint32(1, 4) as first calls that each rejected a
\* draw, then nextInt32(2^31 - 3, 2^31) and nextUint32(2^31 - 3, 2^31).
C29_Witness ==
  /\ Len(hist["A"]) = 2
  /\ Len(hist["B"]) = 2
  /\ hist["A"][1].call = <<Int32Fn, <<One, Lit(4)>>>>
  /\ hist["B"][1].call = <<Uint32Fn, <<One, Lit(4)>>>>
  /\ hist["A"][1].draws >= 2
  /\ hist["B"][1].draws = hist["A"][1].draws
  /\ hist["A"][1].result = hist["B"][1].result
  /\ hist["A"][2].call[1] = Int32Fn
  /\ hist["B"][2].call[1] = Uint32Fn
  /\ hist["A"][2].call[2] = <<Sub(MAX_SAFE_INT32_EXCLUSIVE, Lit(3)), MAX_SAFE_INT32_EXCLUSIVE>>
  /\ hist["B"][2].call[2] = hist["A"][2].call[2]
  /\ Ge(hist["A"][2].result, Sub(MAX_SAFE_INT32_EXCLUSIVE, Lit(3)))
  /\ hist["A"][2].state = hist["B"][2].state

\* ---------------------------------------------------------------------------
\* C30
\* ---------------------------------------------------------------------------

\* The state object at r in heap h and the array it refers to, if any.
RefsOf(h, r) == IF "X" \in DOMAIN h[r] THEN {r, h[r].X} ELSE {r}

\* The state object at r in heap h, its array's elements in place of the
\* reference.
Contents(h, r) == IF "X" \in DOMAIN h[r] THEN [h[r] EXCEPT !.X = h[h[r].X]] ELSE h[r]

\* No generator shares an object or an array with a state object the test
\* holds or with the other generator, and no two held state objects share one.
StatesApart ==
  /\ \A g \in Gens : \A k \in 1..Len(kept) :
       gen[g] # 0 => RefsOf(heap, gen[g]) \cap RefsOf(heap, kept[k]) = {}
  /\ (gen["A"] # 0 /\ gen["B"] # 0) =>
       RefsOf(heap, gen["A"]) \cap RefsOf(heap, gen["B"]) = {}
  /\ \A k \in 1..Len(kept) : \A l \in 1..Len(kept) :
       k # l => RefsOf(heap, kept[k]) \cap RefsOf(heap, kept[l]) = {}

\* A step leaves every held state object as it is, and leaves the state of
\* every generator but the one whose call is running as it is.
OthersUntouched ==
  /\ \A k \in 1..Len(kept) : Contents(heap', kept[k]) = Contents(heap, kept[k])
  /\ \A g \in Gens :
       (gen[g] # 0 /\ gen'[g] = gen[g] /\ caller # g) =>
         Contents(heap', gen[g]) = Contents(heap, gen[g])

\* A draw of a generator's call returns the value, and leaves the state,
\* that the generator's own state before the draw determines.
OwnDraw ==
  \A g \in Gens :
    (caller = g /\ pc \in {"fast", "loop"} /\ calls' # calls) =>
      /\ calls'[Len(calls')] =
           nextSource(alg, fn, internalNext(alg, Contents(heap, gen[g])).value)
      /\ Contents(heap', gen[g]) = internalNext(alg, Contents(heap, gen[g])).state

\* A generator made from a state object starts in that state.
AdoptsState ==
  \A g \in Gens :
    (gen[g] = 0 /\ gen'[g] # 0 /\ frame'.options.state # 0) =>
      Contents(heap', gen'[g]) = Contents(heap, frame'.options.state)

\* C30: generators made from the same seed, from each other's exported
\* state or from one and the same state object never share state: however
\* their calls interleave, a call on one never changes the state of the
\* other, the values a generator returns are determined by its own state,
\* which only its own calls change, and no generator changes a state object
\* it was made from or that it exported.
C30_InstancesShareNoState ==
  /\ []StatesApart
  /\ [][OthersUntouched]_vars
  /\ [][OwnDraw]_vars
  /\ [][AdoptsState]_vars

\* Two Xor4096 generators made from one state object S; the first finished
\* two calls and the second one, and S is still the state built from 'start'.
C30_Witness ==
  /\ alg = Xor4096
  /\ Len(kept) = 1
  /\ made["A"].state
  /\ made["B"].state
  /\ Len(hist["A"]) = 2
  /\ Len(hist["B"]) = 1
  /\ pc = "idle"
  /\ hist["B"][1].call = hist["A"][1].call
  /\ hist["B"][1].result = hist["A"][1].result
  /\ Contents(heap, kept[1]) = FromStart[Xor4096]
  /\ Contents(heap, gen["B"]) = hist["B"][1].state
  /\ Contents(heap, gen["A"]) # Contents(heap, gen["B"])
  /\ StatesApart

====
